---- MODULE Spec2Model ----
(***************************************************************************)
(* Supervision, metrics and fault-recovery core of three stress-ng         *)
(* stressors: stress_atomic (stress-atomic.c), stress_cgroup_mount         *)
(* (stress-cgroup.c) and stress_dev (stress-dev.c).                        *)
(*                                                                         *)
(* One run executes one stressor (prog).  The supervisor is a sequential   *)
(* process whose position is pc; worker processes run concurrently with    *)
(* it.  Worker index STRESS_ATOMIC_MAX_PROCS is the batch stress_atomic    *)
(* runs in the supervisor itself; stress_cgroup_mount and stress_dev have  *)
(* one worker alive at a time, kept at index 0.                            *)
(***************************************************************************)
EXTENDS Integers, Sequences, FiniteSets, TLC

VARIABLES
    prog,           \* which stressor this run executes
    flag,           \* the global continue flag (stress_continue_flag)
    bogo,           \* the bogo-op counter of args
    pc,             \* position of the supervisor
    i,              \* the supervisor's loop index i (j in the last loop)
    rc,             \* the supervisor's rc
    ret,            \* the value the stressor returned ("none" while running)
    mapped,         \* atomic_info is mapped
    pid,            \* atomic_info[i].pid; pid[0] is pid of cgroup and dev
    metrics,        \* atomic_info[i].metrics[j]
    w_st,           \* state of each worker
    w_pass,         \* passes a worker process has started
    w_code,         \* exit status or terminating signal of a worker
    clockTick,      \* what stress_time_now() advances by over one call
    has64,          \* sizeof(long int) == sizeof(uint64_t)
    err,            \* errno left by the failed fork or wait being handled
    sink,           \* calls made to stress_metrics_set, in order
    divided,        \* divisors the rate computation has divided by
    notified,       \* calls made to stress_set_proc_state, in order
    natt,           \* fork attempts the supervisor has made
    nforks,         \* workers started (successful forks)
    nfaults,        \* faults the environment has injected
    hist,           \* observations recorded for the properties
    rw,             \* the call of stress_dev_rw in progress, if any
    ops,            \* the invocation of DO_ATOMIC_OPS looked at on its own
    cache,          \* the visited caches of a dev child and their users
    grp             \* the call of stress_cgroup_new_group in progress

vars == <<prog, flag, bogo, pc, i, rc, ret, mapped, pid, metrics, w_st,
          w_pass, w_code, clockTick, has64, err, sink, divided, notified,
          natt, nforks, nfaults, hist, rw, ops, cache, grp>>

(***************************************************************************)
(* Program constants.                                                      *)
(***************************************************************************)
STRESS_ATOMIC_MAX_PROCS == 3

STRESS_ATOMIC_MAX_FUNCS == 4

\* const int rounds of stress_atomic_exercise
rounds == 1000

\* (*count) += 64.0 of DO_ATOMIC_OPS
OpsPerCall == 64

(***************************************************************************)
(* Bounds of the model.                                                    *)
(***************************************************************************)
\* args->max_ops: the operation budget of the run
MaxOps == 2

\* faults the environment injects in one run: a death by signal, a failed
\* fork, wait, mmap, mkdir or mount, a verification mismatch
MaxFaults == 1

Progs == {"atomic", "cgroup", "dev"}

\* <<clock advance per call, 64 bit longs>> of the hosts considered
Platforms == {<<1, TRUE>>, <<1, FALSE>>, <<0, TRUE>>}

Children == 0 .. (STRESS_ATOMIC_MAX_PROCS - 1)

\* n_atomic_procs slots: the children's and, last, the supervisor's own
Workers == 0 .. STRESS_ATOMIC_MAX_PROCS

Kinds == 0 .. (STRESS_ATOMIC_MAX_FUNCS - 1)

\* rounds of the inner loop at which a mismatch is tried
FailRounds == {1}

Alive == {"init", "run", "cleanup"}

Zombie == {"zexit", "zsig"}

TransientErrno == {"EAGAIN", "ENOMEM"}

ForkErrno == {"EAGAIN", "ENOMEM", "ENOSYS"}

WaitErrno == {"EINTR", "ECHILD"}

ZeroMetric == [duration |-> 0, count |-> 0]

\* mism: workers whose workload reported a mismatch; liveKills: deaths by an
\* outside SIGKILL before cancellation; owed: why a new fork is due; stopAtt,
\* killAtt: natt when the supervisor saw its continue condition false, saw a
\* SIGKILL death with the flag cleared, saw a death by another signal;
\* early: it sent SIGKILL to a running worker while stress_continue held;
\* fatalAtt: natt when a fork first failed with another errno than
\* EAGAIN or ENOMEM; term: the supervisor sent a SIGTERM; killNoTerm: it
\* sent a SIGKILL to a worker it had sent no SIGTERM; prep: what each
\* child did between its fork and its first pass
NoHist == [mism |-> {}, liveKills |-> 0, owed |-> "none", stopAtt |-> -1,
           killAtt |-> -1, sigAtt |-> -1, early |-> FALSE, fatalAtt |-> -1,
           term |-> FALSE, killNoTerm |-> FALSE,
           prep |-> [c \in Children |-> {}]]

\* static char *dev_path as stress_dev sets it before the first fork
DevNull == "/dev/null"

\* no call of stress_dev_rw is in progress.  pc: position in the call;
\* call: the argument loops; loops: the local loops; dev_path: the shared
\* path; path: the local copy; mode: what S_ISBLK and S_ISCHR see in buf;
\* timeout: the local flag; el: stress_time_now() - t_start in hundredths
\* of a second; nsusp: suspension points of the unit of work so far;
\* unchecked: those since the last deadline check; uniform: each took
\* SuspendTime; lastAb: the path of the preceding unit if that was
\* abandoned and the caller has not gone on to another entry since;
\* retried: a unit started on the path just abandoned; late:
\* a suspension point was executed after the deadline was seen exceeded;
\* main: where the child's main thread is: in its traversal loop, at the
\* pthread_join loop, or past _exit; fds: the descriptors the call has
\* opened and not closed
RwIdle == [pc |-> "idle", call |-> 0, loops |-> 0, dev_path |-> DevNull,
           path |-> "", mode |-> "none", timeout |-> FALSE, el |-> 0,
           nsusp |-> 0, unchecked |-> 0, uniform |-> TRUE, lastAb |-> "",
           retried |-> FALSE, late |-> FALSE, main |-> "traverse",
           fds |-> 0]

\* no invocation of DO_ATOMIC_OPS is looked at.  width: the bits of type;
\* tmp, unshared, check1, check2: the locals of the macro, each a sequence
\* of width / 8 bytes, least significant first; rc: the macro's rc
OpsIdle == [pc |-> "idle", width |-> 8, tmp |-> <<0>>, unshared |-> <<0>>,
            check1 |-> <<0>>, check2 |-> <<0>>, rc |-> 0]

\* the threads of a child of stress_dev: the main thread and the probe
\* threads looked at
MainThread == 0

\* the value of the spin lock that no thread holds
NoHolder == -1

Probes == {1}

Threads == {MainThread} \cup Probes

\* the caches of a child that is not looked at.  lock: NoHolder or the thread
\* that holds the spin lock; scsi, dev: the identifiers in scsi_hash_table
\* and dev_hash_table; scsiPart, devPart: those whose entry is being
\* written; dev_path: the shared path; idx: the traversal's index into the
\* directory; th: for each thread its position, the devpath it works on,
\* the result of its lookup and whether it is still in the critical
\* section of that lookup.  Observations: unlocked: the tables accessed
\* by a thread that did not hold the lock; shared: the tables accessed by
\* a probe thread; split: an insert was made outside the critical section
\* of the lookup before it; sawPartial: a lookup met an entry being
\* written; probedAfter: the paths probed while in dev_hash_table;
\* skipped: the paths passed over because they were found in it; adds:
\* <<thread, identifier>> of the inserts made into scsi_hash_table;
\* live: the storage dev_path points to is a string literal or the buffer
\* filename of an iteration of stress_dev_dir that has not ended; init:
\* shim_pthread_spin_init has been called
CacheIdle ==
    [lock |-> NoHolder, scsi |-> {}, scsiPart |-> {}, dev |-> {}, devPart |-> {},
     dev_path |-> DevNull, idx |-> 1,
     th |-> [t \in Threads |->
               [pc |-> "idle", id |-> "", found |-> FALSE, sameCs |-> FALSE]],
     unlocked |-> {}, shared |-> {}, split |-> FALSE, sawPartial |-> FALSE,
     probedAfter |-> {}, skipped |-> {}, adds |-> {}, live |-> TRUE,
     init |-> FALSE]

\* no call of stress_cgroup_new_group is in progress.  pc: position in the
\* call; pid: what fork returned; i: the index into values; child: the
\* state of the forked child; dirs: the pids whose group directory
\* exists; made: the pids a group directory was ever made for; written:
\* the <<file, pid>> written to a cgroup.procs; killed: the arguments
\* stress_kill_pid was called with.  Of stress_cgroup_child around it:
\* tmp: the temporary directory was made and stress_temp_dir_rm_args has
\* not been called for it; owed: a mount has succeeded and
\* stress_cgroup_umount has not been called since; ui: the i of
\* stress_cgroup_umount; ulast: what its last umount gave; after: where
\* its caller goes on; crc: what the child returns
GrpIdle == [pc |-> "idle", pid |-> 0, i |-> 0, child |-> "none", dirs |-> {},
            made |-> {}, written |-> {}, killed |-> {}, tmp |-> FALSE,
            owed |-> FALSE, ui |-> 0, ulast |-> "none", after |-> "none",
            crc |-> "EXIT_SUCCESS"]

(***************************************************************************)
(* Helpers of the core that the stressors call.                            *)
(***************************************************************************)
\* stress_continue_flag()
stress_continue_flag == flag

\* flag set and budget not exhausted, for flag f and counter b
ContinueWith(f, b) == f /\ b < MaxOps

\* stress_continue(args) / keep_stressing()
stress_continue == ContinueWith(flag, bogo)

\* stress_redo_fork(args, errno): retry a fork that failed transiently
stress_redo_fork(e) == stress_continue /\ e \in TransientErrno

WIFEXITED(s) == s.how = "exit"

WIFSIGNALED(s) == s.how = "signal"

WEXITSTATUS(s) == s.code

WTERMSIG(s) == s.code

\* the status a wait reports for terminated worker w
StatusOf(w) ==
    [how |-> IF w_st[w] = "zexit" THEN "exit" ELSE "signal", code |-> w_code[w]]

(***************************************************************************)
(* Initial state: before the stressor function is entered.                 *)
(***************************************************************************)
Init ==
    /\ prog \in Progs
    /\ flag = TRUE
    /\ bogo = 0
    /\ pc = "start"
    /\ i = 0
    /\ rc = "EXIT_SUCCESS"
    /\ ret = "none"
    /\ mapped = FALSE
    /\ pid = [c \in Children |-> -1]
    /\ metrics = [w \in Workers |-> [k \in Kinds |-> ZeroMetric]]
    /\ w_st = [w \in Workers |-> "none"]
    /\ w_pass = [w \in Workers |-> 0]
    /\ w_code = [w \in Workers |-> "none"]
    /\ \E h \in (IF prog = "atomic" THEN Platforms ELSE {<<1, TRUE>>}) :
          clockTick = h[1] /\ has64 = h[2]
    /\ err = "none"
    /\ sink = <<>>
    /\ divided = {}
    /\ notified = <<>>
    /\ natt = 0
    /\ nforks = 0
    /\ nfaults = 0
    /\ hist = NoHist
    /\ rw = RwIdle
    /\ ops = OpsIdle
    /\ cache = CacheIdle
    /\ grp = GrpIdle

supv == <<pc, i, rc, ret, err>>

workv == <<w_st, w_pass, w_code>>

aggv == <<sink, divided>>

cntv == <<natt, nforks, nfaults>>

platv == <<prog, clockTick, has64, rw, ops, cache, grp>>

(***************************************************************************)
(* The environment: cancellation and signals from outside.                 *)
(***************************************************************************)
\* the run is cancelled: the continue flag is cleared and never set again
Cancel ==
    /\ flag
    /\ ret = "none"
    /\ flag' = FALSE
    /\ UNCHANGED <<bogo, supv, mapped, pid, metrics, workv, aggv, notified,
                   cntv, hist, platv>>

\* worker process w terminates by signal sig
Signalled(w, sig) ==
    /\ w_st' = [w_st EXCEPT ![w] = "zsig"]
    /\ w_code' = [w_code EXCEPT ![w] = sig]

\* the supervisor sends the signals sigs, in order, to worker w: a live
\* worker dies by one of them
Escalate(w, sigs) ==
    IF w_st[w] \in Alive /\ sigs # <<>>
        THEN \E n \in 1 .. Len(sigs) : Signalled(w, sigs[n])
        ELSE UNCHANGED <<w_st, w_code>>

\* the supervisor has sent the signals sigs to one worker
NoteSent(h, sigs) ==
    [h EXCEPT !.term = @ \/ (\E n \in 1 .. Len(sigs) : sigs[n] = "SIGTERM"),
              !.killNoTerm = @ \/ (\E n \in 1 .. Len(sigs) :
                                     /\ sigs[n] = "SIGKILL"
                                     /\ \A m \in 1 .. (n - 1) : sigs[m] # "SIGTERM")]

\* the OOM killer sends SIGKILL to a live worker child
EnvKill(w) ==
    /\ w \in Children
    /\ w_st[w] \in Alive
    /\ nfaults < MaxFaults
    /\ nfaults' = nfaults + 1
    /\ Signalled(w, "SIGKILL")
    /\ hist' = [hist EXCEPT !.liveKills = @ + (IF flag THEN 1 ELSE 0)]
    /\ UNCHANGED <<flag, bogo, supv, mapped, pid, metrics, w_pass, aggv,
                   notified, natt, nforks, platv>>

\* a live worker child dies by a signal other than SIGKILL
EnvSignal(w) ==
    /\ w \in Children
    /\ w_st[w] \in Alive
    /\ nfaults < MaxFaults
    /\ nfaults' = nfaults + 1
    /\ Signalled(w, "SIGSEGV")
    /\ UNCHANGED <<flag, bogo, supv, mapped, pid, metrics, w_pass, aggv,
                   notified, natt, nforks, hist, platv>>

(***************************************************************************)
(* stress_atomic: the workload.                                            *)
(***************************************************************************)
\* the supervisor's batch is given the last child's slot
SlotOfLastChild(w) ==
    IF w = STRESS_ATOMIC_MAX_PROCS THEN STRESS_ATOMIC_MAX_PROCS - 1 ELSE w

\* the slot worker w accumulates into: &atomic_info[i] in child i,
\* &atomic_info[n_atomic_procs - 1] in the supervisor
SlotOf(w) == w

\* an invocation of kind k runs DO_ATOMIC_OPS (uint64 only on 64 bit longs)
RunsOps(k) == k # 0 \/ has64

\* the invocation that finds the mismatch is not accounted for
CallsInBeforeFailure(k, kf, j) ==
    IF k < kf THEN rounds ELSE IF k = kf THEN j - 1 ELSE 0

\* invocations of kind k made in a pass that stops at round j of kind kf
\* (kf = STRESS_ATOMIC_MAX_FUNCS: the pass runs to its end); the j-th one
\* of kind kf adds to duration and count before it compares check2
CallsIn(k, kf, j) == IF k < kf THEN rounds ELSE IF k = kf THEN j ELSE 0

\* DO_ATOMIC_OPS, n times: each adds the elapsed time and 64 operations
DoAtomicOps(m, n) ==
    [duration |-> m.duration + n * clockTick, count |-> m.count + n * OpsPerCall]

\* the metrics after worker w's pass that stops at round j of kind kf
PassMetrics(w, kf, j) ==
    [metrics EXCEPT ![SlotOf(w)] =
        [k \in Kinds |-> IF RunsOps(k) THEN DoAtomicOps(@[k], CallsIn(k, kf, j))
                                       ELSE @[k]]]

\* the loop condition tests the budget only
ExerciseAgainBudget(b) == b < MaxOps

\* while (stress_continue(args)) of stress_atomic_exercise, counter at b
ExerciseAgain(b) == ContinueWith(flag, b)

\* the result of the supervisor's own batch is dropped
ExerciseEndsUnchecked(w, r) ==
    IF w \in Children
        THEN /\ w_st' = [w_st EXCEPT ![w] = "zexit"]
             /\ w_code' = [w_code EXCEPT ![w] = r]
             /\ UNCHANGED <<pc, i, rc>>
        ELSE /\ w_st' = [w_st EXCEPT ![w] = "returned"]
             /\ pc' = "a_reap"
             /\ i' = 0
             /\ UNCHANGED <<w_code, rc>>

\* how stress_atomic_exercise ends in worker w with result r: a child calls
\* _exit(EXIT_FAILURE) or _exit(EXIT_SUCCESS); in the supervisor
\* if (... < 0) rc = EXIT_FAILURE, and the reap loop is next
ExerciseEnds(w, r) ==
    IF w \in Children
        THEN /\ w_st' = [w_st EXCEPT ![w] = "zexit"]
             /\ w_code' = [w_code EXCEPT ![w] = r]
             /\ UNCHANGED <<pc, i, rc>>
        ELSE /\ w_st' = [w_st EXCEPT ![w] = "returned"]
             /\ rc' = IF r = "EXIT_FAILURE" THEN "EXIT_FAILURE" ELSE rc
             /\ pc' = "a_reap"
             /\ i' = 0
             /\ UNCHANGED w_code

\* stress_bogo_inc is called in the loop over the kinds
BogoPerKind(b) == b + STRESS_ATOMIC_MAX_FUNCS

\* stress_bogo_inc(args) after the two for loops: once per completed pass
BogoAfterPass(b) == b + 1

\* one pass of stress_atomic_exercise's do-while loop by worker w
Exercise(w) ==
    /\ prog = "atomic"
    /\ w_st[w] = "run"
    /\ \/ \* every invocation succeeds: stress_bogo_inc, then the condition
          /\ metrics' = PassMetrics(w, STRESS_ATOMIC_MAX_FUNCS, 0)
          /\ bogo' = BogoAfterPass(bogo)
          /\ IF ExerciseAgain(bogo')
                THEN /\ w_pass' = [w_pass EXCEPT ![w] = @ + 1]
                     /\ UNCHANGED <<w_st, w_code, pc, i, rc>>
                ELSE /\ ExerciseEnds(w, "EXIT_SUCCESS")
                     /\ UNCHANGED w_pass
          /\ UNCHANGED <<nfaults, hist>>
       \/ \* an invocation finds check2 != check1: return -1
          /\ nfaults < MaxFaults
          /\ nfaults' = nfaults + 1
          /\ \E kf \in {k \in Kinds : RunsOps(k)}, j \in FailRounds :
                metrics' = PassMetrics(w, kf, j)
          /\ ExerciseEnds(w, "EXIT_FAILURE")
          /\ hist' = [hist EXCEPT !.mism = @ \cup {w}]
          /\ UNCHANGED <<bogo, w_pass>>
    /\ UNCHANGED <<flag, ret, err, mapped, pid, aggv, notified, natt, nforks,
                   platv>>

(***************************************************************************)
(* stress_atomic: the supervisor.                                          *)
(***************************************************************************)
\* the failed mmap is reported as any other failure
MmapFailedAsFailure == "EXIT_FAILURE"

\* atomic_info == MAP_FAILED: return EXIT_NO_RESOURCE
MmapFailedStatus == "EXIT_NO_RESOURCE"

\* mmap of the shared metrics, then the loops that set pid and the metrics
AtomicMmap ==
    /\ prog = "atomic"
    /\ pc = "start"
    /\ \/ \* atomic_info == MAP_FAILED
          /\ nfaults < MaxFaults
          /\ nfaults' = nfaults + 1
          /\ ret' = MmapFailedStatus
          /\ pc' = "done"
          /\ UNCHANGED <<mapped, pid, metrics>>
       \/ /\ mapped' = TRUE
          /\ pid' = [c \in Children |-> -1]
          /\ metrics' = [w \in Workers |-> [k \in Kinds |-> ZeroMetric]]
          /\ pc' = "a_run"
          /\ UNCHANGED <<ret, nfaults>>
    /\ UNCHANGED <<flag, bogo, i, rc, err, workv, aggv, notified, natt, nforks,
                   hist, platv>>

\* stress_set_proc_state(args->name, STRESS_STATE_RUN)
AtomicRun ==
    /\ prog = "atomic"
    /\ pc = "a_run"
    /\ notified' = Append(notified, "RUN")
    /\ pc' = "a_fork"
    /\ i' = 0
    /\ UNCHANGED <<flag, bogo, rc, ret, err, mapped, pid, metrics, workv, aggv,
                   cntv, hist, platv>>

\* what the child does between fork and stress_atomic_exercise: nothing
AtomicChildPrep == {}

\* one iteration of the fork loop: the child starts its first pass at once
AtomicFork ==
    /\ prog = "atomic"
    /\ pc = "a_fork"
    /\ natt' = natt + 1
    /\ \/ /\ pid' = [pid EXCEPT ![i] = i + 1]
          /\ w_st' = [w_st EXCEPT ![i] = "run"]
          /\ w_pass' = [w_pass EXCEPT ![i] = 1]
          /\ nforks' = nforks + 1
          /\ hist' = [hist EXCEPT !.prep[i] = AtomicChildPrep]
          /\ UNCHANGED nfaults
       \/ \* fork fails: the loop has STRESS_ATOMIC_MAX_PROCS iterations
          \* whatever fails, so these failures need no budget
          /\ pid' = [pid EXCEPT ![i] = -1]
          /\ UNCHANGED <<w_st, w_pass, nforks, nfaults, hist>>
    /\ i' = i + 1
    /\ pc' = IF i + 1 < STRESS_ATOMIC_MAX_PROCS THEN "a_fork" ELSE "a_exercise"
    /\ UNCHANGED <<flag, bogo, rc, ret, err, mapped, metrics, w_code, aggv,
                   notified, platv>>

\* the supervisor enters stress_atomic_exercise on the last slot
AtomicExerciseCall ==
    /\ prog = "atomic"
    /\ pc = "a_exercise"
    /\ w_st[STRESS_ATOMIC_MAX_PROCS] = "none"
    /\ w_st' = [w_st EXCEPT ![STRESS_ATOMIC_MAX_PROCS] = "run"]
    /\ w_pass' = [w_pass EXCEPT ![STRESS_ATOMIC_MAX_PROCS] = 1]
    /\ UNCHANGED <<flag, bogo, supv, mapped, pid, metrics, w_code, aggv,
                   notified, cntv, hist, platv>>

\* the reap loop continues whatever the non-blocking waitpid returned
NoHangAlways(w) == TRUE

\* waitpid(pid, &status, WNOHANG) == pid and WIFEXITED(status): continue
NoHangContinue(w) == w_st[w] \in Zombie /\ WIFEXITED(StatusOf(w))

\* one iteration of the reap loop up to its continue or its shim_kill(pid, 0)
AtomicReap ==
    /\ prog = "atomic"
    /\ pc = "a_reap"
    /\ IF i >= STRESS_ATOMIC_MAX_PROCS
          THEN /\ pc' = "a_agg"
               /\ i' = 0
               /\ UNCHANGED <<rc, w_st>>
          ELSE IF pid[i] <= 0
          THEN /\ i' = i + 1
               /\ UNCHANGED <<pc, rc, w_st>>
          ELSE /\ w_st' = IF w_st[i] \in Zombie
                             THEN [w_st EXCEPT ![i] = "reaped"] ELSE w_st
               /\ IF NoHangContinue(i)
                     THEN /\ rc' = IF WEXITSTATUS(StatusOf(i)) = "EXIT_FAILURE"
                                      THEN "EXIT_FAILURE" ELSE rc
                          /\ i' = i + 1
                          /\ UNCHANGED pc
                     ELSE /\ pc' = "a_kill0"
                          /\ UNCHANGED <<rc, i>>
    /\ UNCHANGED <<flag, bogo, ret, err, mapped, pid, metrics, w_pass, w_code,
                   aggv, notified, cntv, hist, platv>>

\* shim_kill(pid, 0) == 0: the process (running or zombie) exists
AtomicProbe ==
    /\ prog = "atomic"
    /\ pc = "a_kill0"
    /\ pc' = IF w_st[i] \in Alive \cup Zombie THEN "a_sigkill" ELSE "a_waitblock"
    /\ UNCHANGED <<flag, bogo, i, rc, ret, err, mapped, pid, metrics, workv,
                   aggv, notified, cntv, hist, platv>>

\* (void)shim_kill(atomic_info[i].pid, SIGKILL)
AtomicEscalation == <<"SIGKILL">>

\* stress_force_killed_bogo(args); shim_kill(pid, SIGKILL)
AtomicSigkill ==
    /\ prog = "atomic"
    /\ pc = "a_sigkill"
    /\ Escalate(i, AtomicEscalation)
    /\ hist' = [NoteSent(hist, AtomicEscalation) EXCEPT
                   !.early = @ \/ (w_st[i] \in Alive /\ stress_continue)]
    /\ pc' = "a_waitblock"
    /\ UNCHANGED <<flag, bogo, i, rc, ret, err, mapped, pid, metrics, w_pass,
                   aggv, notified, cntv, platv>>

\* (void)waitpid(pid, &status, 0): returns once the child has terminated
\* (or at once, with ECHILD, if it was reaped already)
AtomicWaitBlock ==
    /\ prog = "atomic"
    /\ pc = "a_waitblock"
    /\ w_st[i] \in Zombie \cup {"reaped"}
    /\ w_st' = [w_st EXCEPT ![i] = "reaped"]
    /\ i' = i + 1
    /\ pc' = "a_reap"
    /\ UNCHANGED <<flag, bogo, rc, ret, err, mapped, pid, metrics, w_pass,
                   w_code, aggv, notified, cntv, hist, platv>>

\* the inner loop over the n first slots: duration += ..., count += ...
RECURSIVE SumDuration(_, _)
SumDuration(j, n) ==
    IF n = 0 THEN 0 ELSE SumDuration(j, n - 1) + metrics[n - 1][j].duration

\* the inner loop starts at slot 1
RECURSIVE SumCountFromOne(_, _)
SumCountFromOne(j, n) ==
    IF n <= 1 THEN 0 ELSE SumCountFromOne(j, n - 1) + metrics[n - 1][j].count

RECURSIVE SumCount(_, _)
SumCount(j, n) ==
    IF n = 0 THEN 0 ELSE SumCount(j, n - 1) + metrics[n - 1][j].count

\* (duration > 0.0) of the rate computation
RateGuard(duration) == duration > 0

\* count / duration, kept exact as quotient and remainder; 0.0 is [0, 0]
RateOf(count, duration) ==
    IF RateGuard(duration)
        THEN [q |-> count \div duration, r |-> count % duration]
        ELSE [q |-> 0, r |-> 0]

\* the loop over the kinds ends one kind early
AggregateDoneEarly(j) == j >= STRESS_ATOMIC_MAX_FUNCS - 1

\* j < STRESS_ATOMIC_MAX_FUNCS fails: the loop over the kinds has ended
AggregateDone(j) == j >= STRESS_ATOMIC_MAX_FUNCS

\* one iteration of the loop over the kinds: sum, rate, stress_metrics_set
AtomicAggregate ==
    /\ prog = "atomic"
    /\ pc = "a_agg"
    /\ LET duration == SumDuration(i, STRESS_ATOMIC_MAX_PROCS + 1)
           count == SumCount(i, STRESS_ATOMIC_MAX_PROCS + 1)
       IN /\ sink' = Append(sink, [kind |-> i, rate |-> RateOf(count, duration)])
          /\ divided' = IF RateGuard(duration) THEN divided \cup {duration}
                                               ELSE divided
    /\ i' = i + 1
    /\ pc' = IF AggregateDone(i + 1) THEN "a_deinit" ELSE "a_agg"
    /\ UNCHANGED <<flag, bogo, rc, ret, err, mapped, pid,
                   metrics, workv, notified, cntv, 
                   hist, platv>>

\* stress_set_proc_state(args->name, STRESS_STATE_DEINIT)
AtomicDeinit ==
    /\ prog = "atomic"
    /\ pc = "a_deinit"
    /\ notified' = Append(notified, "DEINIT")
    /\ pc' = "a_munmap"
    /\ UNCHANGED <<flag, bogo, i, rc, ret, err, mapped, pid,
                   metrics, workv, aggv, cntv,  hist,
                   platv>>

\* munmap of atomic_info; return rc
AtomicReturn ==
    /\ prog = "atomic"
    /\ pc = "a_munmap"
    /\ mapped' = FALSE
    /\ ret' = rc
    /\ pc' = "done"
    /\ UNCHANGED <<flag, bogo, i, rc, err, pid, metrics,
                   workv, aggv, notified, cntv,  hist,
                   platv>>

AtomicNext ==
    \/ AtomicMmap
    \/ AtomicRun
    \/ AtomicFork
    \/ AtomicExerciseCall
    \/ AtomicReap
    \/ AtomicProbe
    \/ AtomicSigkill
    \/ AtomicWaitBlock
    \/ AtomicAggregate
    \/ AtomicDeinit
    \/ AtomicReturn
    \/ \E w \in Workers : Exercise(w)

(***************************************************************************)
(* What the supervisors of stress_cgroup_mount and stress_dev observe.     *)
(***************************************************************************)
\* the supervisor finds its continue condition false
ObserveStop(h) == IF h.stopAtt = -1 THEN [h EXCEPT !.stopAtt = natt] ELSE h

\* the supervisor reaps worker 0 and reads status s
ObserveDeath(h, s) ==
    IF WIFSIGNALED(s) /\ WTERMSIG(s) = "SIGKILL"
        THEN [h EXCEPT !.owed = "kill",
                       !.killAtt = IF ~flag /\ @ = -1 THEN natt ELSE @]
    ELSE IF WIFSIGNALED(s)
        THEN [h EXCEPT !.owed = "sig",
                       !.sigAtt = IF @ = -1 THEN natt ELSE @]
        ELSE h

\* the supervisor finds its fork failed with errno e
ObserveForkFailure(h, e) ==
    IF e \in TransientErrno
        THEN [h EXCEPT !.owed = "retry"]
        ELSE [h EXCEPT !.owed = "fatal",
                       !.fatalAtt = IF @ = -1 THEN natt + 1 ELSE @]

\* a fork attempt: on success worker 0 is a new process
ForkAttempt(ok) ==
    /\ natt' = natt + 1
    /\ IF ok
          THEN /\ pid' = [pid EXCEPT ![0] = natt + 1]
               /\ w_st' = [w_st EXCEPT ![0] = "init"]
               /\ w_pass' = [w_pass EXCEPT ![0] = 0]
               /\ w_code' = [w_code EXCEPT ![0] = "none"]
               /\ nforks' = nforks + 1
               /\ UNCHANGED nfaults
          ELSE /\ nfaults < MaxFaults
               /\ nfaults' = nfaults + 1
               /\ pid' = [pid EXCEPT ![0] = -1]
               /\ UNCHANGED <<workv, nforks>>

\* a blocking wait of the supervisor on worker 0 fails and leaves errno e
WaitFails(e) ==
    /\ w_st[0] \in Alive \cup Zombie
    /\ nfaults < MaxFaults
    /\ nfaults' = nfaults + 1
    /\ e \in WaitErrno
    /\ err' = e

\* the second wait is left out
WaitAgainSkipped == UNCHANGED <<w_st, nfaults>>

\* the second (void)shim_waitpid(pid, &status, 0): the block-wait that
\* returns when the child has terminated and reaps it (at once, if it has
\* been reaped already)
WaitAgain ==
    /\ w_st[0] \in Zombie \cup {"reaped"}
    /\ w_st' = [w_st EXCEPT ![0] = "reaped"]
    /\ UNCHANGED nfaults

(***************************************************************************)
(* stress_cgroup_mount: the worker child, stress_cgroup_child.             *)
(***************************************************************************)
\* what stress_cgroup_child does before its loop: stress_parent_died_alarm
\* (and sched_settings_apply), no OOM adjustment
CgroupChildPrep == {"alarm"}

\* stress_parent_died_alarm, sched_settings_apply, mkdir and realpath of
\* the temporary directory; a failure returns EXIT_FAILURE
CgroupChildSetup ==
    /\ prog = "cgroup"
    /\ w_st[0] = "init"
    /\ hist' = [hist EXCEPT !.prep[0] = CgroupChildPrep]
    /\ \/ /\ w_st' = [w_st EXCEPT ![0] = "run"]
          /\ w_pass' = [w_pass EXCEPT ![0] = 1]
          /\ UNCHANGED <<w_code, nfaults>>
       \/ /\ nfaults < MaxFaults
          /\ nfaults' = nfaults + 1
          /\ w_st' = [w_st EXCEPT ![0] = "zexit"]
          /\ w_code' = [w_code EXCEPT ![0] = "EXIT_FAILURE"]
          /\ UNCHANGED w_pass
    /\ UNCHANGED <<flag, bogo, supv, mapped, pid, metrics, aggv, notified,
                   natt, nforks, platv>>

\* while (stress_continue(args)) of stress_cgroup_child, counter at b
CgroupChildAgain(b) == ContinueWith(flag, b)

\* one pass of the do-while loop: mount, exercise, umount, stress_bogo_inc;
\* a failed mount and the end of the loop go to cleanup
CgroupChildPass ==
    /\ prog = "cgroup"
    /\ w_st[0] = "run"
    /\ \/ /\ bogo' = bogo + 1
          /\ IF CgroupChildAgain(bogo + 1)
                THEN /\ w_pass' = [w_pass EXCEPT ![0] = @ + 1]
                     /\ UNCHANGED w_st
                ELSE /\ w_st' = [w_st EXCEPT ![0] = "cleanup"]
                     /\ UNCHANGED w_pass
          /\ UNCHANGED nfaults
       \/ /\ nfaults < MaxFaults
          /\ nfaults' = nfaults + 1
          /\ w_st' = [w_st EXCEPT ![0] = "cleanup"]
          /\ UNCHANGED <<bogo, w_pass>>
    /\ UNCHANGED <<flag, supv, mapped, pid, metrics, w_code, aggv, notified,
                   natt, nforks, hist, platv>>

\* cleanup: stress_cgroup_umount, stress_temp_dir_rm_args, return rc, and
\* _exit of that in stress_cgroup_mount
CgroupChildCleanup ==
    /\ prog = "cgroup"
    /\ w_st[0] = "cleanup"
    /\ w_st' = [w_st EXCEPT ![0] = "zexit"]
    /\ w_code' = [w_code EXCEPT ![0] = "EXIT_SUCCESS"]
    /\ UNCHANGED <<flag, bogo, supv, mapped, pid, metrics, w_pass, aggv,
                   notified, cntv, hist, platv>>

(***************************************************************************)
(* stress_cgroup_mount: the supervisor.                                    *)
(***************************************************************************)
\* stress_set_proc_state(args->name, STRESS_STATE_RUN)
CgroupStart ==
    /\ prog = "cgroup"
    /\ pc = "start"
    /\ notified' = Append(notified, "RUN")
    /\ pc' = "c_again"
    /\ UNCHANGED <<flag, bogo, i, rc, ret, err, mapped, pid, metrics, workv,
                   aggv, cntv, hist, platv>>

\* the label again lacks its check
AgainUnchecked == TRUE

\* again: if (!stress_continue_flag()) break
CgroupAgainCheck == stress_continue_flag

\* the label again, its check, and pid = fork()
CgroupAgain ==
    /\ prog = "cgroup"
    /\ pc = "c_again"
    /\ IF ~CgroupAgainCheck
          THEN /\ pc' = "c_finish"
               /\ hist' = ObserveStop(hist)
               /\ UNCHANGED <<err, pid, workv, cntv>>
          ELSE \/ /\ ForkAttempt(TRUE)
                  /\ pc' = "c_wait"
                  /\ hist' = [hist EXCEPT !.owed = "none", !.prep[0] = {}]
                  /\ UNCHANGED err
               \/ /\ ForkAttempt(FALSE)
                  /\ \E e \in ForkErrno :
                        /\ err' = e
                        /\ hist' = ObserveForkFailure(hist, e)
                  /\ pc' = "c_forkfail"
    /\ UNCHANGED <<flag, bogo, i, rc, ret, mapped, metrics, aggv, notified,
                   platv>>

\* a fork failure that is not retried ends the loop
CgroupAfterForkFailGivesUp(e) ==
    IF stress_redo_fork(e) THEN "c_again" ELSE "c_finish"

\* where the supervisor goes when fork failed with errno e: again when
\* stress_redo_fork, finish when !stress_continue, else, after pr_err, on
\* to the loop condition
CgroupAfterForkFail(e) ==
    IF stress_redo_fork(e) THEN "c_again"
    ELSE IF ~stress_continue THEN "c_finish"
    ELSE "c_loopcond"

\* pid < 0: stress_redo_fork, else finish when !stress_continue, else pr_err
CgroupForkFail ==
    /\ prog = "cgroup"
    /\ pc = "c_forkfail"
    /\ pc' = CgroupAfterForkFail(err)
    /\ hist' = IF CgroupAfterForkFail(err) = "c_finish" THEN ObserveStop(hist)
                                                        ELSE hist
    /\ UNCHANGED <<flag, bogo, i, rc, ret, err, mapped, pid, metrics, workv,
                   aggv, notified, cntv, platv>>

\* a death by SIGKILL is handled like any other death by signal
CgroupAfterWaitNoRestart(s) ==
    IF WIFSIGNALED(s) THEN "c_loopcond"
    ELSE IF WEXITSTATUS(s) = "EXIT_FAILURE" THEN "return_failure"
    ELSE "c_loopcond"

\* where the supervisor goes after shim_waitpid returned status s:
\* again after a death by SIGKILL, return EXIT_FAILURE after such an exit
CgroupAfterWait(s) ==
    IF WIFSIGNALED(s)
        THEN IF WTERMSIG(s) = "SIGKILL" THEN "c_again" ELSE "c_loopcond"
    ELSE IF WEXITSTATUS(s) = "EXIT_FAILURE" THEN "return_failure"
    ELSE "c_loopcond"

\* waitret = shim_waitpid(pid, &status, 0) and the branches on it
CgroupWait ==
    /\ prog = "cgroup"
    /\ pc = "c_wait"
    /\ \/ /\ w_st[0] \in Zombie
          /\ w_st' = [w_st EXCEPT ![0] = "reaped"]
          /\ hist' = ObserveDeath(hist, StatusOf(0))
          /\ IF CgroupAfterWait(StatusOf(0)) = "return_failure"
                THEN pc' = "done" /\ ret' = "EXIT_FAILURE"
                ELSE pc' = CgroupAfterWait(StatusOf(0)) /\ UNCHANGED ret
          /\ UNCHANGED <<err, nfaults>>
       \/ /\ \E e \in WaitErrno : WaitFails(e)
          /\ pc' = "c_waitfail"
          /\ UNCHANGED <<w_st, ret, hist>>
    /\ UNCHANGED <<flag, bogo, i, rc, mapped, pid, metrics, w_pass, w_code,
                   aggv, notified, natt, nforks, platv>>

\* stress_kill_pid(pid): the forceful signal
stress_kill_pid(w) == Escalate(w, <<"SIGKILL">>)

\* what the supervisor sends when its wait failed with errno e
CgroupEscalation(e) == IF e # "EINTR" THEN <<"SIGKILL">> ELSE <<>>

\* waitret < 0: stress_kill_pid(pid) unless errno is EINTR
CgroupWaitFail ==
    /\ prog = "cgroup"
    /\ pc = "c_waitfail"
    /\ IF err # "EINTR" THEN stress_kill_pid(0) ELSE UNCHANGED <<w_st, w_code>>
    /\ hist' = NoteSent(hist, CgroupEscalation(err))
    /\ pc' = "c_wait2"
    /\ UNCHANGED <<flag, bogo, i, rc, ret, err, mapped, pid, metrics, w_pass,
                   aggv, notified, cntv, platv>>

\* (void)shim_waitpid(pid, &status, 0), then the loop condition is next
CgroupWaitAgain ==
    /\ prog = "cgroup"
    /\ pc = "c_wait2"
    /\ WaitAgain
    /\ pc' = "c_loopcond"
    /\ UNCHANGED <<flag, bogo, i, rc, ret, err, mapped, pid, metrics, w_pass,
                   w_code, aggv, notified, natt, nforks, hist, platv>>

CgroupLoopAgainFlagOnly == stress_continue_flag

\* the condition of stress_cgroup_mount's loop: stress_continue(args)
CgroupLoopAgain == stress_continue

\* } while (stress_continue(args))
CgroupLoopCond ==
    /\ prog = "cgroup"
    /\ pc = "c_loopcond"
    /\ IF CgroupLoopAgain
          THEN pc' = "c_again" /\ UNCHANGED hist
          ELSE pc' = "c_finish" /\ hist' = ObserveStop(hist)
    /\ UNCHANGED <<flag, bogo, i, rc, ret, err, mapped, pid, metrics, workv,
                   aggv, notified, cntv, platv>>

\* finish: stress_set_proc_state(... STRESS_STATE_DEINIT); return EXIT_SUCCESS
CgroupFinish ==
    /\ prog = "cgroup"
    /\ pc = "c_finish"
    /\ notified' = Append(notified, "DEINIT")
    /\ ret' = "EXIT_SUCCESS"
    /\ pc' = "done"
    /\ UNCHANGED <<flag, bogo, i, rc, err, mapped, pid, metrics, workv, aggv,
                   cntv, hist, platv>>

CgroupNext ==
    \/ CgroupChildSetup
    \/ CgroupChildPass
    \/ CgroupChildCleanup
    \/ CgroupStart
    \/ CgroupAgain
    \/ CgroupForkFail
    \/ CgroupWait
    \/ CgroupWaitFail
    \/ CgroupWaitAgain
    \/ CgroupLoopCond
    \/ CgroupFinish

(***************************************************************************)
(* stress_dev: the worker child.                                           *)
(***************************************************************************)
\* the OOM adjustment is left out
DevChildPrepNoOom == {"alarm"}

\* what the child of stress_dev does before its traversal loop:
\* stress_parent_died_alarm and stress_set_oom_adjustment(args->name, true)
DevChildPrep == {"alarm", "oom"}

\* the two stress_hash_create and shim_pthread_spin_init (a failure is
\* _exit(EXIT_NO_RESOURCE)), setpgid, stress_parent_died_alarm,
\* sched_settings_apply, stress_set_oom_adjustment, the pthread_create loop
DevChildSetup ==
    /\ prog = "dev"
    /\ w_st[0] = "init"
    /\ \/ /\ w_st' = [w_st EXCEPT ![0] = "run"]
          /\ w_pass' = [w_pass EXCEPT ![0] = 1]
          /\ hist' = [hist EXCEPT !.prep[0] = DevChildPrep]
          /\ UNCHANGED <<w_code, nfaults>>
       \/ /\ nfaults < MaxFaults
          /\ nfaults' = nfaults + 1
          /\ w_st' = [w_st EXCEPT ![0] = "zexit"]
          /\ w_code' = [w_code EXCEPT ![0] = "EXIT_NO_RESOURCE"]
          /\ UNCHANGED <<w_pass, hist>>
    /\ UNCHANGED <<flag, bogo, supv, mapped, pid, metrics, aggv, notified,
                   natt, nforks, platv>>

\* while (keep_stressing()) of the child's traversal loop, counter at b
DevChildAgain(b) == ContinueWith(flag, b)

\* one stress_dev_dir(args, "/dev", true, 0, euid): it counts a device with
\* inc_counter while keep_stressing() holds; after the loop the threads are
\* joined and the child calls _exit(EXIT_SUCCESS)
DevChildPass ==
    /\ prog = "dev"
    /\ w_st[0] = "run"
    /\ bogo' = IF stress_continue THEN bogo + 1 ELSE bogo
    /\ IF DevChildAgain(bogo')
          THEN /\ w_pass' = [w_pass EXCEPT ![0] = @ + 1]
               /\ UNCHANGED <<w_st, w_code>>
          ELSE /\ w_st' = [w_st EXCEPT ![0] = "zexit"]
               /\ w_code' = [w_code EXCEPT ![0] = "EXIT_SUCCESS"]
               /\ UNCHANGED w_pass
    /\ UNCHANGED <<flag, supv, mapped, pid, metrics, aggv, notified, cntv,
                   hist, platv>>

(***************************************************************************)
(* stress_dev: the supervisor.                                             *)
(***************************************************************************)
\* dev_path = "/dev/null" and the set-up before the loop
DevStart ==
    /\ prog = "dev"
    /\ pc = "start"
    /\ pc' = "d_again"
    /\ UNCHANGED <<flag, bogo, i, rc, ret, err, mapped, pid, metrics, workv,
                   aggv, notified, cntv, hist, platv>>

\* the label again of stress_dev lacks its check
DevAgainUnchecked == TRUE

\* again: if (!keep_stressing()) break
DevAgainCheck == stress_continue

\* (errno == EAGAIN) || (errno == ENOMEM): goto again
DevRedoFork(e) == e \in TransientErrno

\* the label again, its check, pid = fork() and the branch on pid < 0
DevAgain ==
    /\ prog = "dev"
    /\ pc = "d_again"
    /\ IF ~DevAgainCheck
          THEN /\ pc' = "d_finish"
               /\ hist' = ObserveStop(hist)
               /\ UNCHANGED <<err, pid, workv, cntv>>
          ELSE \/ /\ ForkAttempt(TRUE)
                  /\ pc' = "d_wait"
                  /\ hist' = [hist EXCEPT !.owed = "none", !.prep[0] = {}]
                  /\ UNCHANGED err
               \/ /\ ForkAttempt(FALSE)
                  /\ \E e \in ForkErrno :
                        /\ err' = e
                        /\ hist' = ObserveForkFailure(hist, e)
                        /\ pc' = IF DevRedoFork(e) THEN "d_again" ELSE "d_loopcond"
    /\ UNCHANGED <<flag, bogo, i, rc, ret, mapped, metrics, aggv, notified,
                   platv>>

\* every end of the child but a clean exit is taken for a failure
DevChildNotClean(s) == ~(WIFEXITED(s) /\ WEXITSTATUS(s) = "EXIT_SUCCESS")

\* WIFEXITED(status) && WEXITSTATUS(status) != 0: rc = EXIT_FAILURE; break
DevChildFailed(s) == WIFEXITED(s) /\ WEXITSTATUS(s) # "EXIT_SUCCESS"

\* wret = shim_waitpid(pid, &status, 0) and the branches on it
DevWait ==
    /\ prog = "dev"
    /\ pc = "d_wait"
    /\ \/ /\ w_st[0] \in Zombie
          /\ w_st' = [w_st EXCEPT ![0] = "reaped"]
          /\ hist' = ObserveDeath(hist, StatusOf(0))
          /\ IF DevChildFailed(StatusOf(0))
                THEN rc' = "EXIT_FAILURE" /\ pc' = "d_finish"
                ELSE pc' = "d_loopcond" /\ UNCHANGED rc
          /\ UNCHANGED <<err, nfaults>>
       \/ /\ \E e \in WaitErrno : WaitFails(e)
          /\ pc' = "d_waitfail"
          /\ UNCHANGED <<w_st, rc, hist>>
    /\ UNCHANGED <<flag, bogo, i, ret, mapped, pid, metrics, w_pass, w_code,
                   aggv, notified, natt, nforks, platv>>

\* only the forceful signal is sent
DevEscalationKillOnly == <<"SIGKILL">>

\* (void)kill(pid, SIGTERM); (void)kill(pid, SIGKILL)
DevEscalation == <<"SIGTERM", "SIGKILL">>

\* wret < 0: kill(pid, SIGTERM); kill(pid, SIGKILL)
DevWaitFail ==
    /\ prog = "dev"
    /\ pc = "d_waitfail"
    /\ Escalate(0, DevEscalation)
    /\ hist' = NoteSent(hist, DevEscalation)
    /\ pc' = "d_wait2"
    /\ UNCHANGED <<flag, bogo, i, rc, ret, err, mapped, pid, metrics, w_pass,
                   aggv, notified, cntv, platv>>

\* (void)shim_waitpid(pid, &status, 0), then the loop condition is next
DevWaitAgain ==
    /\ prog = "dev"
    /\ pc = "d_wait2"
    /\ WaitAgain
    /\ pc' = "d_loopcond"
    /\ UNCHANGED <<flag, bogo, i, rc, ret, err, mapped, pid, metrics, w_pass,
                   w_code, aggv, notified, natt, nforks, hist, platv>>

\* } while (keep_stressing())
DevLoopCond ==
    /\ prog = "dev"
    /\ pc = "d_loopcond"
    /\ IF stress_continue
          THEN pc' = "d_again" /\ UNCHANGED hist
          ELSE pc' = "d_finish" /\ hist' = ObserveStop(hist)
    /\ UNCHANGED <<flag, bogo, i, rc, ret, err, mapped, pid, metrics, workv,
                   aggv, notified, cntv, platv>>

\* shim_pthread_spin_destroy(&lock); return rc
DevFinish ==
    /\ prog = "dev"
    /\ pc = "d_finish"
    /\ ret' = rc
    /\ pc' = "done"
    /\ UNCHANGED <<flag, bogo, i, rc, err, mapped, pid, metrics, workv, aggv,
                   notified, cntv, hist, platv>>

DevNext ==
    \/ DevChildSetup
    \/ DevChildPass
    \/ DevStart
    \/ DevAgain
    \/ DevWait
    \/ DevWaitFail
    \/ DevWaitAgain
    \/ DevLoopCond
    \/ DevFinish

EnvNext ==
    \/ Cancel
    \/ \E w \in Children : EnvKill(w)
    \/ \E w \in Children : EnvSignal(w)

Next == AtomicNext \/ CgroupNext \/ DevNext \/ EnvNext

Spec == Init /\ [][Next]_vars

\* stress_cgroup_mount on its own
InitCgroup == Init /\ prog = "cgroup"

CgroupAll == CgroupNext \/ EnvNext

SpecCgroup == InitCgroup /\ [][CgroupAll]_vars

(***************************************************************************)
(* The workers of stress_atomic on their own: the fork loop has ended with *)
(* every child created, and the supervisor is about to enter               *)
(* stress_atomic_exercise itself.                                          *)
(***************************************************************************)
InitExercise ==
    /\ prog = "atomic"
    /\ flag = TRUE
    /\ bogo = 0
    /\ pc = "a_exercise"
    /\ i = STRESS_ATOMIC_MAX_PROCS
    /\ rc = "EXIT_SUCCESS"
    /\ ret = "none"
    /\ mapped = TRUE
    /\ pid = [c \in Children |-> c + 1]
    /\ metrics = [w \in Workers |-> [k \in Kinds |-> ZeroMetric]]
    /\ w_st = [w \in Workers |-> IF w \in Children THEN "run" ELSE "none"]
    /\ w_pass = [w \in Workers |-> IF w \in Children THEN 1 ELSE 0]
    /\ w_code = [w \in Workers |-> "none"]
    /\ \E h \in Platforms : clockTick = h[1] /\ has64 = h[2]
    /\ err = "none"
    /\ sink = <<>>
    /\ divided = {}
    /\ notified = <<"RUN">>
    /\ natt = STRESS_ATOMIC_MAX_PROCS
    /\ nforks = STRESS_ATOMIC_MAX_PROCS
    /\ nfaults = 0
    /\ hist = [NoHist EXCEPT !.prep = [c \in Children |-> AtomicChildPrep]]
    /\ rw = RwIdle
    /\ ops = OpsIdle
    /\ cache = CacheIdle
    /\ grp = GrpIdle

ExerciseNext ==
    \/ AtomicExerciseCall
    \/ \E w \in Workers : Exercise(w)
    \/ Cancel

SpecExercise == InitExercise /\ [][ExerciseNext]_vars

(***************************************************************************)
(* The aggregation of stress_atomic on its own: it starts from the state   *)
(* the supervisor is in when the reap loop has ended, for slots of any     *)
(* content the workers can have left (counts are multiples of 64).         *)
(***************************************************************************)
AggCells == {[duration |-> 0, count |-> 0], [duration |-> 0, count |-> 64],
             [duration |-> 2, count |-> 64], [duration |-> 3, count |-> 128]}

InitAgg ==
    /\ prog = "atomic"
    /\ flag = FALSE
    /\ bogo = 0
    /\ pc = "a_agg"
    /\ i = 0
    /\ rc = "EXIT_SUCCESS"
    /\ ret = "none"
    /\ mapped = TRUE
    /\ pid = [c \in Children |-> c + 1]
    /\ \E V \in [Workers -> AggCells], U \in [Workers -> AggCells] :
          metrics = [w \in Workers |->
                        [k \in Kinds |-> IF k % 2 = 0 THEN V[w] ELSE U[w]]]
    /\ w_st = [w \in Workers |->
                  IF w = STRESS_ATOMIC_MAX_PROCS THEN "returned" ELSE "reaped"]
    /\ w_pass = [w \in Workers |-> 1]
    /\ w_code = [w \in Workers |->
                    IF w = STRESS_ATOMIC_MAX_PROCS THEN "none" ELSE "EXIT_SUCCESS"]
    /\ clockTick = 1
    /\ has64 = TRUE
    /\ err = "none"
    /\ sink = <<>>
    /\ divided = {}
    /\ notified = <<"RUN">>
    /\ natt = STRESS_ATOMIC_MAX_PROCS
    /\ nforks = STRESS_ATOMIC_MAX_PROCS
    /\ nfaults = 0
    /\ hist = NoHist
    /\ rw = RwIdle
    /\ ops = OpsIdle
    /\ cache = CacheIdle
    /\ grp = GrpIdle

AggNext ==
    \/ AtomicAggregate
    \/ AtomicDeinit
    \/ AtomicReturn

SpecAgg == InitAgg /\ [][AggNext]_vars

(***************************************************************************)
(* stress_dev_rw on its own, inside a running child of stress_dev: one     *)
(* call at a time, made either by the traversal stress_dev_dir (loops > 0) *)
(* or by a probe thread stress_dev_thread (loops == -1).  Time is counted  *)
(* in hundredths of a second and passes in the suspension points only.     *)
(***************************************************************************)
\* const double threshold = 0.25
Threshold == 25

\* the 0.1s a suspension point takes when nothing blocks
SuspendTime == 10

\* what one suspension point can take: nothing, 0.1s, all of the threshold
Latencies == {0, SuspendTime, Threshold}

\* elapsed times past the threshold and one suspension are not told apart
Saturate(t) ==
    IF t > Threshold + SuspendTime THEN Threshold + SuspendTime ELSE t

\* the entries of /dev the traversal comes across
Devices == {DevNull, "/dev/zero"}

\* loops as the callers pass it: -1 by stress_dev_thread, instance + 1 by
\* stress_dev_dir
RwCalls == {-1, 1, 2}

Modes == {"blk", "chr", "other"}

ExceededOrEqual(e) == e >= Threshold

\* stress_time_now() - t_start > threshold
Exceeded(e) == e > Threshold

AfterPollUnchecked == "select"

\* where the code goes after poll(): to a deadline check
AfterPoll == "chk_poll"

\* the straight-line suspension points and what follows each
StepNext ==
    [p \in {"blk", "scsi_blk", "hd_linux", "tty", "lseek_set", "lseek_cur",
            "lseek_end", "poll", "select", "getfd", "getfl", "getsig",
            "mmap_rpriv", "mmap_rshared", "mmap_wpriv", "mmap_wshared",
            "fsync", "dev_funcs", "rdwr"} |->
        CASE p = "blk" -> "scsi_blk"
          [] p = "scsi_blk" -> "hd_linux"
          [] p = "hd_linux" -> "lseek_set"
          [] p = "tty" -> "lseek_set"
          [] p = "lseek_set" -> "lseek_cur"
          [] p = "lseek_cur" -> "lseek_end"
          [] p = "lseek_end" -> "chk_lseek"
          [] p = "poll" -> AfterPoll
          [] p = "select" -> "chk_select"
          [] p = "getfd" -> "chk_getfd"
          [] p = "getfl" -> "chk_getfl"
          [] p = "getsig" -> "chk_getsig"
          [] p = "mmap_rpriv" -> "mmap_rshared"
          [] p = "mmap_rshared" -> "chk_close"
          [] p = "mmap_wpriv" -> "mmap_wshared"
          [] p = "mmap_wshared" -> "fsync"
          [] p = "fsync" -> "dev_funcs"
          [] p = "dev_funcs" -> "chk_close2"
          [] p = "rdwr" -> "next"]

\* the deadline checks and where each goes on to when the deadline holds
CheckNext ==
    [p \in {"chk_open", "chk_lseek", "chk_poll", "chk_select", "chk_getfd",
            "chk_getfl", "chk_getsig", "chk_close", "chk_close2"} |->
        CASE p = "chk_open" -> "fstat"
          [] p = "chk_lseek" -> "poll"
          [] p = "chk_poll" -> "select"
          [] p = "chk_select" -> "getfd"
          [] p = "chk_getfd" -> "getfl"
          [] p = "chk_getfl" -> "getsig"
          [] p = "chk_getsig" -> "mmap_rpriv"
          [] p = "chk_close" -> "open2"
          [] p = "chk_close2" -> "rdwr"]

ClosingChecksButPoll == {"chk_open", "chk_lseek", "chk_select", "chk_getfd",
                         "chk_getfl", "chk_getsig"}

\* the deadline checks whose branch closes fd: (void)close(fd); goto next.
\* The two checks after a close(fd) have nothing to close
ClosingChecks == {"chk_open", "chk_lseek", "chk_poll", "chk_select",
                  "chk_getfd", "chk_getfl", "chk_getsig"}

\* the straight-line steps that end with (void)close(fd)
ClosingSteps == {"mmap_rshared", "dev_funcs"}

\* the variables no step of stress_dev_rw or of its callers changes
rwframe == <<prog, pc, i, rc, ret, mapped, pid, metrics, w_pass, clockTick,
             has64, err, aggv, notified, natt, nforks, hist, ops, cache, grp>>

\* one suspension point that takes l has been executed
Suspend(l) ==
    [rw EXCEPT !.el = Saturate(@ + l),
               !.nsusp = @ + 1,
               !.unchecked = @ + 1,
               !.uniform = @ /\ l = SuspendTime,
               !.late = @ \/ rw.timeout]

\* the other entry of /dev
NextEntry(d) == CHOOSE e \in Devices : e # d

\* stress_dev_dir: the next device entry is published in dev_path and
\* exercised, unless the run is to stop
RwDir ==
    /\ w_st[0] = "run"
    /\ rw.pc = "idle"
    /\ rw.call > 0
    /\ rw' = IF stress_continue
                THEN [rw EXCEPT !.dev_path = NextEntry(@),
                                !.loops = rw.call,
                                !.lastAb = "",
                                !.pc = "top"]
                ELSE [rw EXCEPT !.pc = "done"]
    /\ UNCHANGED <<flag, bogo, nfaults, w_st, w_code, rwframe>>

\* stress_dev_thread: while (keep_stressing_flag()) stress_dev_rw(args, -1)
RwThread ==
    /\ w_st[0] = "run"
    /\ rw.pc = "idle"
    /\ rw.call = -1
    /\ rw' = IF stress_continue_flag
                THEN [rw EXCEPT !.loops = -1, !.pc = "top"]
                ELSE [rw EXCEPT !.pc = "done"]
    /\ UNCHANGED <<flag, bogo, nfaults, w_st, w_code, rwframe>>

\* what a probe thread finds in dev_path changes: the traversal publishes
\* another entry, or the buffer filename that dev_path points to has gone
\* out of scope and holds anything
RwPathChange ==
    /\ w_st[0] = "run"
    /\ rw.call = -1
    /\ rw.main = "traverse"
    /\ \E d \in (Devices \cup {""}) \ {rw.dev_path} :
          rw' = [rw EXCEPT !.dev_path = d]
    /\ UNCHANGED <<flag, bogo, nfaults, w_st, w_code, rwframe>>

\* the head of the loop: the loop test, the copy of dev_path under the
\* lock, the test of path and flag, and t_start
RwTop ==
    /\ w_st[0] = "run"
    /\ rw.pc = "top"
    /\ \/ /\ rw.loops = -1 \/ rw.loops > 0
          /\ nfaults < MaxFaults
          /\ nfaults' = nfaults + 1
          /\ rw' = [rw EXCEPT !.pc = "ret"]
       \/ /\ nfaults' = nfaults
          /\ rw' = IF ~(rw.loops = -1 \/ rw.loops > 0)
                      THEN [rw EXCEPT !.pc = "ret"]
                   ELSE IF rw.dev_path = "" \/ ~stress_continue_flag
                      THEN [rw EXCEPT !.path = rw.dev_path, !.pc = "ret"]
                   ELSE [rw EXCEPT !.path = rw.dev_path,
                                   !.pc = "open",
                                   !.mode = "none",
                                   !.timeout = FALSE,
                                   !.el = 0,
                                   !.nsusp = 0,
                                   !.unchecked = 0,
                                   !.uniform = TRUE,
                                   !.retried = @ \/ rw.lastAb = rw.dev_path]
    /\ UNCHANGED <<flag, bogo, w_st, w_code, rwframe>>

\* open(path, O_RDONLY | O_NONBLOCK), the first and the second
RwOpen ==
    /\ w_st[0] = "run"
    /\ rw.pc \in {"open", "open2"}
    /\ \E l \in Latencies, r \in {"ok", "EINTR", "ENOENT"} :
          rw' = [Suspend(l) EXCEPT
                    !.fds = IF r = "ok" THEN @ + 1 ELSE @,
                    !.pc = CASE r = "EINTR" -> "next"
                             [] r = "ENOENT" -> "rdwr"
                             [] OTHER -> IF rw.pc = "open" THEN "chk_open"
                                         ELSE "mmap_wpriv"]
    /\ UNCHANGED <<flag, bogo, nfaults, w_st, w_code, rwframe>>

\* fstat(fd, &buf): when it fails buf is left as it was, so any mode can
\* be seen; when it succeeds on neither a block nor a character device the
\* unit ends
RwFstat ==
    /\ w_st[0] = "run"
    /\ rw.pc = "fstat"
    /\ \E l \in Latencies, ok \in BOOLEAN, m \in Modes :
          rw' = [Suspend(l) EXCEPT
                    !.mode = m,
                    !.fds = IF ok /\ m = "other" THEN @ - 1 ELSE @,
                    !.pc = IF ok /\ m = "other" THEN "next"
                           ELSE IF m = "blk" THEN "blk"
                           ELSE IF m = "chr" THEN "tcgets"
                           ELSE "lseek_set"]
    /\ UNCHANGED <<flag, bogo, nfaults, w_st, w_code, rwframe>>

\* ioctl(fd, TCGETS, &tios) on a character device
RwTcgets ==
    /\ w_st[0] = "run"
    /\ rw.pc = "tcgets"
    /\ \E l \in Latencies, ok \in BOOLEAN :
          rw' = [Suspend(l) EXCEPT
                    !.pc = IF ok THEN "tty" ELSE "lseek_set"]
    /\ UNCHANGED <<flag, bogo, nfaults, w_st, w_code, rwframe>>

\* one of the suspension points that has one successor; at rdwr the
\* descriptor, if open() gave one, is closed in the same step
RwStep ==
    /\ w_st[0] = "run"
    /\ rw.pc \in DOMAIN StepNext
    /\ \E l \in Latencies :
          rw' = [Suspend(l) EXCEPT
                    !.fds = IF rw.pc \in ClosingSteps THEN @ - 1 ELSE @,
                    !.pc = StepNext[rw.pc]]
    /\ UNCHANGED <<flag, bogo, nfaults, w_st, w_code, rwframe>>

\* if (stress_time_now() - t_start > threshold) { timeout = true; ...
\* goto next; }
RwCheck ==
    /\ w_st[0] = "run"
    /\ rw.pc \in DOMAIN CheckNext
    /\ rw' = IF Exceeded(rw.el)
                THEN [rw EXCEPT !.timeout = TRUE,
                                !.unchecked = 0,
                                !.fds = IF rw.pc \in ClosingChecks
                                           THEN @ - 1 ELSE @,
                                !.pc = "next"]
                ELSE [rw EXCEPT !.unchecked = 0,
                                !.pc = CheckNext[rw.pc]]
    /\ UNCHANGED <<flag, bogo, nfaults, w_st, w_code, rwframe>>

RwNextNoBreak(l, t) == "top"

\* next: if (loops > 0) { if (timeout) break; loops--; }
RwNextPc(l, t) == IF l > 0 /\ t THEN "ret" ELSE "top"

RwNext ==
    /\ w_st[0] = "run"
    /\ rw.pc = "next"
    /\ rw' = [rw EXCEPT
                 !.pc = RwNextPc(rw.loops, rw.timeout),
                 !.loops = IF rw.loops > 0
                              /\ RwNextPc(rw.loops, rw.timeout) = "top"
                              THEN @ - 1 ELSE @,
                 !.lastAb = IF rw.timeout THEN rw.path ELSE ""]
    /\ UNCHANGED <<flag, bogo, nfaults, w_st, w_code, rwframe>>

\* stress_dev_rw has returned: stress_dev_dir counts the entry, the thread
\* comes back to its loop test
RwReturn ==
    /\ w_st[0] = "run"
    /\ rw.pc = "ret"
    /\ rw' = [rw EXCEPT !.pc = "idle"]
    /\ bogo' = IF rw.call > 0 THEN bogo + 1 ELSE bogo
    /\ UNCHANGED <<flag, nfaults, w_st, w_code, rwframe>>

\* the run is cancelled while stress_dev_rw is at work
RwCancel ==
    /\ flag
    /\ ret = "none"
    /\ flag' = FALSE
    /\ UNCHANGED <<bogo, nfaults, rw, w_st, w_code, rwframe>>

\* the main thread counts an entry while a probe thread is running:
\* inc_counter(args) of stress_dev_dir
RwCount ==
    /\ w_st[0] = "run"
    /\ rw.call = -1
    /\ rw.main = "traverse"
    /\ stress_continue
    /\ bogo' = bogo + 1
    /\ UNCHANGED <<flag, nfaults, rw, w_st, w_code, rwframe>>

\* the traversal loop of the child has ended, while (keep_stressing()):
\* dev_path = "" under the lock, or not if the lock cannot be taken
RwClearPath ==
    /\ w_st[0] = "run"
    /\ rw.main = "traverse"
    /\ IF rw.call > 0 THEN rw.pc = "done" ELSE ~stress_continue
    /\ \/ /\ rw' = [rw EXCEPT !.dev_path = "", !.main = "join"]
          /\ UNCHANGED nfaults
       \/ /\ nfaults < MaxFaults
          /\ nfaults' = nfaults + 1
          /\ rw' = [rw EXCEPT !.main = "join"]
    /\ UNCHANGED <<flag, bogo, w_st, w_code, rwframe>>

DevChildExitFailure == "EXIT_FAILURE"

\* _exit(EXIT_SUCCESS) of the child of stress_dev
DevChildExit == "EXIT_SUCCESS"

\* the pthread_join loop and _exit: a join returns when its probe thread
\* has left while (keep_stressing_flag())
RwJoin ==
    /\ w_st[0] = "run"
    /\ rw.main = "join"
    /\ IF rw.call = -1 THEN rw.pc = "done" ELSE ~stress_continue_flag
    /\ rw' = [rw EXCEPT !.main = "exited"]
    /\ w_st' = [w_st EXCEPT ![0] = "zexit"]
    /\ w_code' = [w_code EXCEPT ![0] = DevChildExit]
    /\ UNCHANGED <<flag, bogo, nfaults, rwframe>>

InitRw ==
    /\ prog = "dev"
    /\ flag = TRUE
    /\ bogo = 0
    /\ pc = "d_wait"
    /\ i = 0
    /\ rc = "EXIT_SUCCESS"
    /\ ret = "none"
    /\ mapped = FALSE
    /\ pid = [c \in Children |-> IF c = 0 THEN 1 ELSE -1]
    /\ metrics = [w \in Workers |-> [k \in Kinds |-> ZeroMetric]]
    /\ w_st = [w \in Workers |-> IF w = 0 THEN "run" ELSE "none"]
    /\ w_pass = [w \in Workers |-> IF w = 0 THEN 1 ELSE 0]
    /\ w_code = [w \in Workers |-> "none"]
    /\ clockTick = 1
    /\ has64 = TRUE
    /\ err = "none"
    /\ sink = <<>>
    /\ divided = {}
    /\ notified = <<>>
    /\ natt = 1
    /\ nforks = 1
    /\ nfaults = 0
    /\ hist = [NoHist EXCEPT !.prep[0] = DevChildPrep]
    /\ \E c \in RwCalls : rw = [RwIdle EXCEPT !.call = c]
    /\ ops = OpsIdle
    /\ cache = CacheIdle
    /\ grp = GrpIdle

\* the supervisor's shim_waitpid, looked at from the end of the child on
RwWaited ==
    /\ w_st[0] \in Zombie
    /\ DevWait

RwAll ==
    \/ RwDir
    \/ RwThread
    \/ RwPathChange
    \/ RwTop
    \/ RwOpen
    \/ RwFstat
    \/ RwTcgets
    \/ RwStep
    \/ RwCheck
    \/ RwNext
    \/ RwReturn
    \/ RwCancel
    \/ RwCount
    \/ RwClearPath
    \/ RwJoin
    \/ RwWaited
    \/ DevWaitFail
    \/ DevWaitAgain
    \/ DevLoopCond
    \/ DevFinish

SpecRw == InitRw /\ [][RwAll]_vars

\* the steps of the child's main thread outside stress_dev_rw
RwMainSteps == RwCount \/ RwClearPath \/ RwJoin

\* the steps of the thread that calls stress_dev_rw
RwCallSteps ==
    \/ RwDir
    \/ RwThread
    \/ RwTop
    \/ RwOpen
    \/ RwFstat
    \/ RwTcgets
    \/ RwStep
    \/ RwCheck
    \/ RwNext
    \/ RwReturn

\* both threads keep running and every system call returns; nothing makes
\* the environment cancel the run
SpecRwLive ==
    InitRw /\ [][RwAll]_vars /\ WF_vars(RwMainSteps) /\ WF_vars(RwCallSteps)

(***************************************************************************)
(* The self-check of DO_ATOMIC_OPS on its own: a value of an unsigned type *)
(* of 8, 16, 32 or 64 bits is a sequence of bytes, least significant       *)
(* first, and the arithmetic is that of the type (modulo 2^width).         *)
(***************************************************************************)
\* the widths of uint8_t, uint16_t, uint32_t, uint64_t
Widths == {8, 16, 32, 64}

\* the least significant byte and the other bytes of the values of tmp
\* looked at: they make every carry and every borrow happen
LowBytes == {0, 1, 127, 254, 255}

HighBytes == {0, 128, 255}

\* the values of tmp = (type)stress_mwc64() looked at, for a width
TmpValues(w) ==
    {v \in [1 .. (w \div 8) -> LowBytes \cup HighBytes] :
        /\ v[1] \in LowBytes
        /\ \A n \in 2 .. (w \div 8) : v[n] \in HighBytes}

\* v + c in the type of v: the carry out of the last byte is lost
RECURSIVE AddW(_, _)
AddW(v, c) ==
    IF v = <<>> THEN <<>>
    ELSE <<(Head(v) + c) % 256>> \o AddW(Tail(v), (Head(v) + c) \div 256)

\* v - b in the type of v: the borrow out of the last byte is lost
RECURSIVE SubW(_, _)
SubW(v, b) ==
    IF v = <<>> THEN <<>>
    ELSE <<(Head(v) + 256 - b) % 256>>
            \o SubW(Tail(v), IF Head(v) < b THEN 1 ELSE 0)

\* ~v in the type of v
NotW(v) == [n \in 1 .. Len(v) |-> 255 - v[n]]

\* the decrement stops at zero
DecrementSaturating(v) ==
    IF \A n \in 1 .. Len(v) : v[n] = 0 THEN v ELSE SubW(v, 1)

\* check2--: the value is converted back to type
Decrement(v) == SubW(v, 1)

opsframe == <<prog, flag, bogo, pc, i, rc, ret, mapped, pid, metrics, workv,
              clockTick, has64, err, aggv, notified, cntv, hist, rw, cache,
              grp>>

\* type unshared, check1 = tmp, check2 = ~tmp; SHIM_ATOMIC_STORE(&unshared,
\* &check1, __ATOMIC_RELAXED)
OpsStore ==
    /\ ops.pc = "store"
    /\ ops' = [ops EXCEPT !.check1 = ops.tmp,
                          !.check2 = NotW(ops.tmp),
                          !.unshared = ops.tmp,
                          !.pc = "add"]
    /\ UNCHANGED opsframe

\* SHIM_ATOMIC_ADD_FETCH(&unshared, (type)2, __ATOMIC_RELAXED)
OpsAddFetch ==
    /\ ops.pc = "add"
    /\ ops' = [ops EXCEPT !.unshared = AddW(@, 2), !.pc = "sub"]
    /\ UNCHANGED opsframe

\* SHIM_ATOMIC_SUB_FETCH(&unshared, (type)1, __ATOMIC_RELAXED)
OpsSubFetch ==
    /\ ops.pc = "sub"
    /\ ops' = [ops EXCEPT !.unshared = SubW(@, 1), !.pc = "load"]
    /\ UNCHANGED opsframe

\* SHIM_ATOMIC_LOAD(&unshared, &check2, __ATOMIC_RELAXED)
OpsLoad ==
    /\ ops.pc = "load"
    /\ ops' = [ops EXCEPT !.check2 = ops.unshared, !.pc = "compare"]
    /\ UNCHANGED opsframe

\* check2--; if (check2 != check1) { pr_fail(...); rc = -1; break; }
OpsCompare ==
    /\ ops.pc = "compare"
    /\ ops' = [ops EXCEPT !.check2 = Decrement(@),
                          !.rc = IF Decrement(ops.check2) # ops.check1
                                    THEN -1 ELSE 0,
                          !.pc = "done"]
    /\ UNCHANGED opsframe

InitOps ==
    /\ prog = "atomic"
    /\ flag = TRUE
    /\ bogo = 0
    /\ pc = "a_run"
    /\ i = 0
    /\ rc = "EXIT_SUCCESS"
    /\ ret = "none"
    /\ mapped = TRUE
    /\ pid = [c \in Children |-> -1]
    /\ metrics = [w \in Workers |-> [k \in Kinds |-> ZeroMetric]]
    /\ w_st = [w \in Workers |-> "none"]
    /\ w_pass = [w \in Workers |-> 0]
    /\ w_code = [w \in Workers |-> "none"]
    /\ clockTick = 1
    /\ has64 = TRUE
    /\ err = "none"
    /\ sink = <<>>
    /\ divided = {}
    /\ notified = <<>>
    /\ natt = 0
    /\ nforks = 0
    /\ nfaults = 0
    /\ hist = NoHist
    /\ rw = RwIdle
    /\ cache = CacheIdle
    /\ grp = GrpIdle
    /\ \E w \in Widths : \E v \in TmpValues(w) :
          ops = [OpsIdle EXCEPT !.pc = "store", !.width = w, !.tmp = v]

OpsNext ==
    \/ OpsStore
    \/ OpsAddFetch
    \/ OpsSubFetch
    \/ OpsLoad
    \/ OpsCompare

SpecOps == InitOps /\ [][OpsNext]_vars

(***************************************************************************)
(* stress_cgroup_child on its own, in a running child of                   *)
(* stress_cgroup_mount, with the stress_cgroup_new_group and the           *)
(* stress_cgroup_umount it calls in each pass.                             *)
(***************************************************************************)
\* what fork() can return to the parent: -1, or the pid of the child
ForkResults == {-1, 7}

\* the first entries of values[]: one that is read, one that is set
GroupValues == <<[name |-> "cpu.stat", value |-> "NULL"],
                 [name |-> "cpu.weight", value |-> "90"]>>

grpframe == <<prog, pc, i, rc, ret, mapped, pid, metrics, workv, clockTick,
              has64, err, aggv, notified, natt, nforks, hist, rw, ops, cache>>

\* pid = fork(); the parent takes the else branch whatever pid is
GrpFork ==
    /\ grp.pc = "fork"
    /\ \E p \in ForkResults :
          grp' = [grp EXCEPT !.pid = p,
                             !.i = 0,
                             !.child = IF p > 0 THEN "run" ELSE "none",
                             !.pc = "mkdir"]
    /\ UNCHANGED <<flag, bogo, nfaults, grpframe>>

\* the child: do { mmap, munmap } while (stress_continue_flag()); _exit(0)
GrpChildExit ==
    /\ grp.child = "run"
    /\ ~stress_continue_flag
    /\ grp' = [grp EXCEPT !.child = "zexit"]
    /\ UNCHANGED <<flag, bogo, nfaults, grpframe>>

\* mkdir(path, ...) of realpathname/stress-ng-<pid>; on failure rmdir and
\* return
GrpMkdir ==
    /\ grp.pc = "mkdir"
    /\ \/ /\ grp' = [grp EXCEPT !.dirs = @ \cup {grp.pid},
                                !.made = @ \cup {grp.pid},
                                !.pc = "add"]
          /\ UNCHANGED nfaults
       \/ /\ nfaults < MaxFaults
          /\ nfaults' = nfaults + 1
          /\ grp' = [grp EXCEPT !.pc = "done"]
    /\ UNCHANGED <<flag, bogo, grpframe>>

\* stress_cgroup_add_pid(realpathname, pid): the pid is written to the
\* cgroup.procs of the group
GrpAddPid ==
    /\ grp.pc = "add"
    /\ grp' = [grp EXCEPT !.written = @ \cup {<<"group", grp.pid>>},
                          !.pc = "read"]
    /\ UNCHANGED <<flag, bogo, nfaults, grpframe>>

\* stress_cgroup_read(filename) and, for an entry with a value,
\* stress_system_write and a second read
GrpReadWrite ==
    /\ grp.pc = "read"
    /\ grp' = [grp EXCEPT !.pc = "del"]
    /\ UNCHANGED <<flag, bogo, nfaults, grpframe>>

\* stress_cgroup_del_pid(realpathname, pid): the pid is written to the
\* cgroup.procs of the mount, and the for loop goes on or ends
GrpDelPid ==
    /\ grp.pc = "del"
    /\ grp' = [grp EXCEPT !.written = @ \cup {<<"root", grp.pid>>},
                          !.i = @ + 1,
                          !.pc = IF grp.i + 1 < Len(GroupValues)
                                    THEN "add" ELSE "kill"]
    /\ UNCHANGED <<flag, bogo, nfaults, grpframe>>

\* stress_kill_pid(pid)
GrpKill ==
    /\ grp.pc = "kill"
    /\ grp' = [grp EXCEPT !.killed = @ \cup {grp.pid},
                          !.child = IF grp.pid > 0 THEN "reaped" ELSE @,
                          !.pc = "rmdir"]
    /\ UNCHANGED <<flag, bogo, nfaults, grpframe>>

\* (void)rmdir(path)
GrpRmdir ==
    /\ grp.pc = "rmdir"
    /\ grp' = [grp EXCEPT !.dirs = @ \ {grp.pid}, !.pc = "done"]
    /\ UNCHANGED <<flag, bogo, nfaults, grpframe>>

\* stress_temp_dir and mkdir(pathname, ...); on failure return EXIT_FAILURE
GrpTmpdir ==
    /\ grp.pc = "tmpdir"
    /\ \/ /\ grp' = [grp EXCEPT !.tmp = TRUE, !.pc = "realpath"]
          /\ UNCHANGED nfaults
       \/ /\ nfaults < MaxFaults
          /\ nfaults' = nfaults + 1
          /\ grp' = [grp EXCEPT !.crc = "EXIT_FAILURE", !.pc = "exit"]
    /\ UNCHANGED <<flag, bogo, grpframe>>

\* realpath(pathname, realpathname); on failure stress_temp_dir_rm_args
\* and return EXIT_FAILURE
GrpRealpath ==
    /\ grp.pc = "realpath"
    /\ \/ /\ grp' = [grp EXCEPT !.pc = "mount"]
          /\ UNCHANGED nfaults
       \/ /\ nfaults < MaxFaults
          /\ nfaults' = nfaults + 1
          /\ grp' = [grp EXCEPT !.tmp = FALSE,
                                !.crc = "EXIT_FAILURE",
                                !.pc = "exit"]
    /\ UNCHANGED <<flag, bogo, grpframe>>

\* mount("none", realpathname, "cgroup2", 0, NULL); on failure goto
\* cleanup; else stress_cgroup_controllers, stress_cgroup_read_files and
\* stress_cgroup_new_group
GrpMount ==
    /\ grp.pc = "mount"
    /\ \/ /\ grp' = [grp EXCEPT !.owed = TRUE, !.pc = "fork"]
          /\ UNCHANGED nfaults
       \/ /\ nfaults < MaxFaults
          /\ nfaults' = nfaults + 1
          /\ grp' = [grp EXCEPT !.pc = "cleanup"]
    /\ UNCHANGED <<flag, bogo, grpframe>>

\* back in stress_cgroup_child: stress_cgroup_umount(args, realpathname)
\* is called
GrpReturn ==
    /\ grp.pc = "done"
    /\ grp' = [grp EXCEPT !.owed = FALSE,
                          !.ui = 0,
                          !.ulast = "none",
                          !.after = "bogo",
                          !.pc = "umount"]
    /\ UNCHANGED <<flag, bogo, nfaults, grpframe>>

\* for (i = 0; i < 100; i++)
UmountTries == 100

\* what umount or umount2 can give: 0, an errno of the wait-and-retry
\* case, EINVAL, an errno of the default case
UmountResults == {"ok", "EBUSY", "EINVAL", "EPERM"}

UmountEndsOnSuccess(r) == r \in {"ok", "EINVAL"}

\* the result of umount that makes stress_cgroup_umount return: case
\* EINVAL: return; ret == 0 and the other cases go on with the loop
UmountEnds(r) == r = "EINVAL"

\* one iteration of the loop of stress_cgroup_umount, and the return to
\* the caller when EINVAL was given or i has reached 100
GrpUmount ==
    /\ grp.pc = "umount"
    /\ \E r \in UmountResults :
          grp' = [grp EXCEPT
                     !.ulast = r,
                     !.ui = @ + 1,
                     !.pc = IF UmountEnds(r) \/ grp.ui + 1 >= UmountTries
                               THEN grp.after ELSE "umount"]
    /\ UNCHANGED <<flag, bogo, nfaults, grpframe>>

ChildLoopEndReturns == "exit"

\* where stress_cgroup_child goes when while (stress_continue(args)) ends
\* the loop: into the cleanup label that follows it
ChildLoopEnd == "cleanup"

\* stress_bogo_inc(args) and while (stress_continue(args))
GrpBogo ==
    /\ grp.pc = "bogo"
    /\ bogo' = bogo + 1
    /\ grp' = [grp EXCEPT !.pc = IF CgroupChildAgain(bogo + 1)
                                    THEN "mount" ELSE ChildLoopEnd]
    /\ UNCHANGED <<flag, nfaults, grpframe>>

\* cleanup: stress_cgroup_umount(args, realpathname) is called
GrpCleanup ==
    /\ grp.pc = "cleanup"
    /\ grp' = [grp EXCEPT !.owed = FALSE,
                          !.ui = 0,
                          !.ulast = "none",
                          !.after = "rm",
                          !.pc = "umount"]
    /\ UNCHANGED <<flag, bogo, nfaults, grpframe>>

\* stress_temp_dir_rm_args(args) removes the temporary directory of the
\* stressor; its result is discarded by every caller here
TempDirRemoved(t) == FALSE

\* (void)stress_temp_dir_rm_args(args); return rc
GrpRm ==
    /\ grp.pc = "rm"
    /\ grp' = [grp EXCEPT !.tmp = TempDirRemoved(@), !.pc = "exit"]
    /\ UNCHANGED <<flag, bogo, nfaults, grpframe>>

\* the run is cancelled while the child of stress_cgroup_mount is at work
GrpCancel ==
    /\ flag
    /\ grp.pc # "exit"
    /\ flag' = FALSE
    /\ UNCHANGED <<bogo, nfaults, grp, grpframe>>

InitGroup ==
    /\ prog = "cgroup"
    /\ flag = TRUE
    /\ bogo = 0
    /\ pc = "c_wait"
    /\ i = 0
    /\ rc = "EXIT_SUCCESS"
    /\ ret = "none"
    /\ mapped = FALSE
    /\ pid = [c \in Children |-> IF c = 0 THEN 1 ELSE -1]
    /\ metrics = [w \in Workers |-> [k \in Kinds |-> ZeroMetric]]
    /\ w_st = [w \in Workers |-> IF w = 0 THEN "run" ELSE "none"]
    /\ w_pass = [w \in Workers |-> IF w = 0 THEN 1 ELSE 0]
    /\ w_code = [w \in Workers |-> "none"]
    /\ clockTick = 1
    /\ has64 = TRUE
    /\ err = "none"
    /\ sink = <<>>
    /\ divided = {}
    /\ notified = <<"RUN">>
    /\ natt = 1
    /\ nforks = 1
    /\ nfaults = 0
    /\ hist = [NoHist EXCEPT !.prep[0] = CgroupChildPrep]
    /\ rw = RwIdle
    /\ ops = OpsIdle
    /\ cache = CacheIdle
    /\ grp = [GrpIdle EXCEPT !.pc = "tmpdir"]

GroupNext ==
    \/ GrpFork
    \/ GrpChildExit
    \/ GrpMkdir
    \/ GrpAddPid
    \/ GrpReadWrite
    \/ GrpDelPid
    \/ GrpKill
    \/ GrpRmdir
    \/ GrpReturn
    \/ GrpTmpdir
    \/ GrpRealpath
    \/ GrpMount
    \/ GrpUmount
    \/ GrpBogo
    \/ GrpCleanup
    \/ GrpRm
    \/ GrpCancel

SpecGroup == InitGroup /\ [][GroupNext]_vars

(***************************************************************************)
(* The visited caches of a running child of stress_dev: the traversal of   *)
(* the main thread with dev_hash_table, and is_scsi_dev with               *)
(* scsi_hash_table as the main thread and the probe threads call it from   *)
(* stress_dev_rw.  stress_hash_get looks an identifier up in one step;     *)
(* stress_hash_add writes its entry in two.                                *)
(***************************************************************************)
\* the entries of /dev the traversal reads
DevEntries == <<[path |-> "/dev/snd", type |-> "DT_DIR"],
                [path |-> "/dev/sda", type |-> "DT_BLK"],
                [path |-> "/dev/sdb", type |-> "DT_BLK"],
                [path |-> "/dev/watchdog", type |-> "DT_CHR"]>>

\* the entry is a block device
IsBlk(p) == \E n \in 1 .. Len(DevEntries) :
               DevEntries[n].path = p /\ DevEntries[n].type = "DT_BLK"

IsWatchdogNever(p) == FALSE

\* strstr(tmp, "watchdog")
IsWatchdog(p) == p = "/dev/watchdog"

\* bytes that name no file
Garbage == "?"

\* what shim_strlcpy(path, dev_path, ...) can copy from a buffer whose
\* lifetime has ended: what was last stored in it, an empty string, or
\* bytes that later calls have left on the stack
StaleContents(p) == {p, "", Garbage}

\* the value of lock after shim_pthread_spin_lock(&lock) by thread t
Locked(l, t) == t

\* the value of lock after shim_pthread_spin_unlock(&lock) by thread t
Unlocked(l, t) == IF l = t THEN NoHolder ELSE l

\* the table after stress_hash_add(tbl, d) has completed
HashAdd(tbl, d) == tbl \cup {d}

\* stress_hash_get(tbl, p) is not NULL
HashGet(tbl, p) == p \in tbl

DevSkipNever(tbl, p) == FALSE

\* stress_dev_dir: if (stress_hash_get(dev_hash_table, tmp)) continue
DevSkip(tbl, p) == HashGet(tbl, p)

IsScsiCachedInverted(tbl, d) == ~HashGet(tbl, d)

\* is_scsi_dev_cached: is_scsi = (stress_hash_get(scsi_hash_table, devpath)
\* != NULL)
IsScsiCached(tbl, d) == HashGet(tbl, d)

cacheframe == <<prog, pc, i, rc, ret, mapped, pid, metrics, workv, clockTick,
                has64, err, aggv, notified, natt, nforks, hist, rw, ops, grp>>

\* the positions of a thread between shim_pthread_spin_lock and
\* shim_pthread_spin_unlock in stress_dev_rw, is_scsi_dev_cached and
\* add_scsi_dev
Critical == {"p_copy", "s_get", "s_unlock", "a_add", "a_add_end", "a_unlock"}

\* thread t is at position p
At(t, p) == w_st[0] = "run" /\ cache.th[t].pc = p

\* where a thread goes when is_scsi_dev returns: the main thread to its
\* inc_counter, a probe thread to its loop
ScsiReturn(t) == IF t = MainThread THEN "t_count" ELSE "p_idle"

AddLockFailedIgnored(t) == "a_add"

\* add_scsi_dev when the lock cannot be taken: if (ret) return
AddLockFailed(t) == ScsiReturn(t)

\* an access to table tb by thread t is noted
Accessed(c, tb, t) ==
    [c EXCEPT !.shared = IF t = MainThread THEN @ ELSE @ \cup {tb},
              !.unlocked = IF c.lock = t THEN @ ELSE @ \cup {tb}]

\* the head of the for loop of stress_dev_dir: if (!keep_stressing()) break,
\* and the end of the directory
TravEntry ==
    /\ At(MainThread, "t_entry")
    /\ cache' = [cache EXCEPT
                    !.th[MainThread].pc =
                        IF stress_continue /\ cache.idx <= Len(DevEntries)
                           THEN "t_get" ELSE "t_loop"]
    /\ UNCHANGED <<flag, bogo, nfaults, cacheframe>>

\* if (stress_hash_get(dev_hash_table, tmp)) continue
TravGet ==
    /\ At(MainThread, "t_get")
    /\ LET p == DevEntries[cache.idx].path
           c == Accessed(cache, "dev", MainThread)
       IN cache' =
             IF DevSkip(cache.dev, p)
                THEN [c EXCEPT !.skipped = @ \cup {p},
                               !.idx = @ + 1,
                               !.sawPartial = @ \/ p \in cache.devPart,
                               !.th[MainThread].pc = "t_entry"]
                ELSE [c EXCEPT !.sawPartial = @ \/ p \in cache.devPart,
                               !.th[MainThread].pc = "t_classify"]
    /\ UNCHANGED <<flag, bogo, nfaults, cacheframe>>

\* a directory: stat(tmp, &buf) and the permission test, then inc_counter
\* and the recursion; a device: the watchdog test.  A path that is not to
\* be probed again goes into dev_hash_table
TravClassify ==
    /\ At(MainThread, "t_classify")
    /\ LET e == DevEntries[cache.idx]
           probed == [cache EXCEPT
                         !.probedAfter = IF e.path \in cache.dev
                                            THEN @ \cup {e.path} ELSE @]
       IN IF e.type = "DT_DIR"
             THEN \/ /\ cache' = [probed EXCEPT !.th[MainThread].pc = "t_add"]
                     /\ UNCHANGED bogo
                  \/ /\ cache' = [probed EXCEPT !.idx = @ + 1,
                                                !.th[MainThread].pc = "t_entry"]
                     /\ bogo' = bogo + 1
          ELSE IF IsWatchdog(e.path)
             THEN /\ cache' = [cache EXCEPT !.th[MainThread].pc = "t_add"]
                  /\ UNCHANGED bogo
          ELSE /\ cache' = [probed EXCEPT !.th[MainThread].pc = "t_try"]
               /\ UNCHANGED bogo
    /\ UNCHANGED <<flag, nfaults, cacheframe>>

\* stress_try_open(args, tmp, O_RDONLY | O_NONBLOCK, 1500000000): the path
\* is opened; if that fails it goes into dev_hash_table
TravTryOpen ==
    /\ At(MainThread, "t_try")
    /\ \E ok \in BOOLEAN :
          cache' = [cache EXCEPT
                       !.th[MainThread].pc = IF ok THEN "t_publish"
                                             ELSE "t_add"]
    /\ UNCHANGED <<flag, bogo, nfaults, cacheframe>>

\* stress_hash_add(dev_hash_table, tmp) starts to write the entry
TravAddBegin ==
    /\ At(MainThread, "t_add")
    /\ LET p == DevEntries[cache.idx].path
       IN cache' = [Accessed(cache, "dev", MainThread) EXCEPT
                       !.devPart = @ \cup {p},
                       !.th[MainThread].pc = "t_add_end"]
    /\ UNCHANGED <<flag, bogo, nfaults, cacheframe>>

\* stress_hash_add(dev_hash_table, tmp) completes; continue
TravAddEnd ==
    /\ At(MainThread, "t_add_end")
    /\ LET p == DevEntries[cache.idx].path
       IN cache' = [cache EXCEPT !.dev = HashAdd(@, p),
                                 !.devPart = @ \ {p},
                                 !.idx = @ + 1,
                                 !.th[MainThread].pc = "t_entry"]
    /\ UNCHANGED <<flag, bogo, nfaults, cacheframe>>

\* shim_pthread_spin_lock, dev_path = filename, unlock; if the lock cannot
\* be taken the entry is left
TravPublish ==
    /\ At(MainThread, "t_publish")
    /\ LET p == DevEntries[cache.idx].path
       IN \/ /\ cache.lock = NoHolder
             /\ cache' = [cache EXCEPT
                             !.dev_path = p,
                             !.live = TRUE,
                             !.probedAfter = IF p \in cache.dev
                                                THEN @ \cup {p} ELSE @,
                             !.th[MainThread].pc = "t_rw"]
             /\ UNCHANGED nfaults
          \/ /\ nfaults < MaxFaults
             /\ nfaults' = nfaults + 1
             /\ cache' = [cache EXCEPT !.idx = @ + 1,
                                       !.th[MainThread].pc = "t_entry"]
    /\ UNCHANGED <<flag, bogo, cacheframe>>

\* stress_dev_rw(args, loops): on a block device stress_dev_scsi_blk calls
\* is_scsi_dev(path)
TravRw ==
    /\ At(MainThread, "t_rw")
    /\ LET p == DevEntries[cache.idx].path
       IN cache' = [cache EXCEPT
                       !.probedAfter = IF p \in cache.dev
                                          THEN @ \cup {p} ELSE @,
                       !.th[MainThread].id = p,
                       !.th[MainThread].pc =
                           IF IsBlk(p) THEN "s_lock" ELSE "t_count"]
    /\ UNCHANGED <<flag, bogo, nfaults, cacheframe>>

\* inc_counter(args) after stress_dev_rw; the iteration ends and with it
\* the lifetime of filename, which dev_path goes on pointing to
TravCount ==
    /\ At(MainThread, "t_count")
    /\ bogo' = bogo + 1
    /\ cache' = [cache EXCEPT !.idx = @ + 1,
                              !.live = FALSE,
                              !.th[MainThread].pc = "t_entry"]
    /\ UNCHANGED <<flag, nfaults, cacheframe>>

\* do { stress_dev_dir(...) } while (keep_stressing())
TravLoop ==
    /\ At(MainThread, "t_loop")
    /\ cache' = [cache EXCEPT
                    !.idx = 1,
                    !.th[MainThread].pc =
                        IF stress_continue THEN "t_entry" ELSE "t_clear"]
    /\ UNCHANGED <<flag, bogo, nfaults, cacheframe>>

\* shim_pthread_spin_init(&lock, ...) in the child; on failure
\* _exit(EXIT_NO_RESOURCE)
ChildSpinInit ==
    /\ At(MainThread, "c_init")
    /\ \/ /\ cache' = [cache EXCEPT !.init = TRUE,
                                    !.th[MainThread].pc = "c_create"]
          /\ UNCHANGED nfaults
       \/ /\ nfaults < MaxFaults
          /\ nfaults' = nfaults + 1
          /\ cache' = [cache EXCEPT !.th[MainThread].pc = "t_exit"]
    /\ UNCHANGED <<flag, bogo, cacheframe>>

\* the pthread_create loop: the probe threads start
ChildCreate ==
    /\ At(MainThread, "c_create")
    /\ cache' = [cache EXCEPT
                    !.th = [t \in Threads |->
                              [@[t] EXCEPT !.pc = IF t = MainThread
                                                     THEN "t_entry"
                                                     ELSE "p_idle"]]]
    /\ UNCHANGED <<flag, bogo, nfaults, cacheframe>>

\* after the traversal loop: dev_path = "" under the lock, or pr_dbg if
\* the lock cannot be taken
TravClear ==
    /\ At(MainThread, "t_clear")
    /\ \/ /\ cache.lock = NoHolder
          /\ cache' = [cache EXCEPT !.dev_path = "",
                                    !.live = TRUE,
                                    !.th[MainThread].pc = "t_join"]
          /\ UNCHANGED nfaults
       \/ /\ nfaults < MaxFaults
          /\ nfaults' = nfaults + 1
          /\ cache' = [cache EXCEPT !.th[MainThread].pc = "t_join"]
    /\ UNCHANGED <<flag, bogo, cacheframe>>

\* the pthread_join loop returns when the probe threads have ended;
\* stress_hash_delete and _exit(EXIT_SUCCESS)
TravJoin ==
    /\ At(MainThread, "t_join")
    /\ \A t \in Probes : cache.th[t].pc = "p_done"
    /\ cache' = [cache EXCEPT !.th[MainThread].pc = "t_exit"]
    /\ UNCHANGED <<flag, bogo, nfaults, cacheframe>>

RwLockFailedIgnored(t) == "p_copy"

\* stress_dev_rw when the lock cannot be taken: if (ret) return
RwLockFailed(t) == "p_idle"

\* a probe thread: while (keep_stressing_flag()) stress_dev_rw(args, -1),
\* which starts with shim_pthread_spin_lock(&lock)
ProbeStart(t) ==
    /\ At(t, "p_idle")
    /\ IF ~stress_continue_flag
          THEN /\ cache' = [cache EXCEPT !.th[t].pc = "p_done"]
               /\ UNCHANGED nfaults
          ELSE \/ /\ cache.lock = NoHolder
                  /\ cache' = [cache EXCEPT !.lock = Locked(@, t),
                                            !.th[t].pc = "p_copy"]
                  /\ UNCHANGED nfaults
               \/ /\ nfaults < MaxFaults
                  /\ nfaults' = nfaults + 1
                  /\ cache' = [cache EXCEPT !.th[t].pc = RwLockFailed(t)]
    /\ UNCHANGED <<flag, bogo, cacheframe>>

\* shim_strlcpy(path, dev_path, sizeof(path)), unlock, and
\* if (!*path || !keep_stressing_flag()) break
ProbeCopy(t) ==
    /\ At(t, "p_copy")
    /\ \E c \in (IF cache.live THEN {cache.dev_path}
                  ELSE StaleContents(cache.dev_path)) :
          cache' = [cache EXCEPT
                       !.lock = Unlocked(@, t),
                       !.th[t].id = c,
                       !.th[t].pc = IF c = "" \/ ~stress_continue_flag
                                       THEN "p_idle" ELSE "p_open"]
    /\ UNCHANGED <<flag, bogo, nfaults, cacheframe>>

\* open(path, O_RDONLY | O_NONBLOCK) and what follows on the descriptor;
\* on a block device stress_dev_scsi_blk comes to is_scsi_dev(path)
ProbeOpen(t) ==
    /\ At(t, "p_open")
    /\ cache' = [cache EXCEPT
                    !.th[t].pc = IF IsBlk(cache.th[t].id)
                                    THEN "s_lock" ELSE "p_idle"]
    /\ UNCHANGED <<flag, bogo, nfaults, cacheframe>>

\* is_scsi_dev_cached: shim_pthread_spin_lock(&lock); if (ret) return false
ScsiCachedLock(t) ==
    /\ At(t, "s_lock")
    /\ \/ /\ cache.lock = NoHolder
          /\ cache' = [cache EXCEPT !.lock = Locked(@, t),
                                    !.th[t].sameCs = TRUE,
                                    !.th[t].pc = "s_get"]
          /\ UNCHANGED nfaults
       \/ /\ nfaults < MaxFaults
          /\ nfaults' = nfaults + 1
          /\ cache' = [cache EXCEPT !.th[t].found = FALSE,
                                    !.th[t].pc = "s_scan"]
    /\ UNCHANGED <<flag, bogo, cacheframe>>

\* is_scsi = (stress_hash_get(scsi_hash_table, devpath) != NULL)
ScsiCachedGet(t) ==
    /\ At(t, "s_get")
    /\ cache' = [Accessed(cache, "scsi", t) EXCEPT
                    !.th[t].found = IsScsiCached(cache.scsi, cache.th[t].id),
                    !.sawPartial = @ \/ cache.th[t].id \in cache.scsiPart,
                    !.th[t].pc = "s_unlock"]
    /\ UNCHANGED <<flag, bogo, nfaults, cacheframe>>

\* shim_pthread_spin_unlock(&lock); return is_scsi, and in is_scsi_dev
\* if (is_scsi_dev_cached(devpath)) return true
ScsiCachedUnlock(t) ==
    /\ At(t, "s_unlock")
    /\ cache' = [cache EXCEPT !.lock = Unlocked(@, t),
                              !.th[t].sameCs = FALSE,
                              !.th[t].pc = IF cache.th[t].found
                                              THEN ScsiReturn(t) ELSE "s_scan"]
    /\ UNCHANGED <<flag, bogo, nfaults, cacheframe>>

\* the scan of /sys/class/scsi_device finds the device or not;
\* if (is_scsi) add_scsi_dev(devpath)
ScsiScan(t) ==
    /\ At(t, "s_scan")
    /\ \E is_scsi \in BOOLEAN :
          cache' = [cache EXCEPT !.th[t].pc = IF is_scsi THEN "a_lock"
                                              ELSE ScsiReturn(t)]
    /\ UNCHANGED <<flag, bogo, nfaults, cacheframe>>

\* add_scsi_dev: shim_pthread_spin_lock(&lock); if (ret) return
AddLock(t) ==
    /\ At(t, "a_lock")
    /\ \/ /\ cache.lock = NoHolder
          /\ cache' = [cache EXCEPT !.lock = Locked(@, t), !.th[t].pc = "a_add"]
          /\ UNCHANGED nfaults
       \/ /\ nfaults < MaxFaults
          /\ nfaults' = nfaults + 1
          /\ cache' = [cache EXCEPT !.th[t].pc = AddLockFailed(t)]
    /\ UNCHANGED <<flag, bogo, cacheframe>>

\* stress_hash_add(scsi_hash_table, devpath) starts to write the entry
AddBegin(t) ==
    /\ At(t, "a_add")
    /\ cache' = [Accessed(cache, "scsi", t) EXCEPT
                    !.scsiPart = @ \cup {cache.th[t].id},
                    !.split = @ \/ ~cache.th[t].sameCs,
                    !.th[t].pc = "a_add_end"]
    /\ UNCHANGED <<flag, bogo, nfaults, cacheframe>>

\* stress_hash_add(scsi_hash_table, devpath) completes
AddEnd(t) ==
    /\ At(t, "a_add_end")
    /\ cache' = [cache EXCEPT !.scsi = HashAdd(@, cache.th[t].id),
                              !.scsiPart = @ \ {cache.th[t].id},
                              !.adds = @ \cup {<<t, cache.th[t].id>>},
                              !.th[t].pc = "a_unlock"]
    /\ UNCHANGED <<flag, bogo, nfaults, cacheframe>>

\* (void)shim_pthread_spin_unlock(&lock)
AddUnlock(t) ==
    /\ At(t, "a_unlock")
    /\ cache' = [cache EXCEPT !.lock = Unlocked(@, t),
                              !.th[t].pc = ScsiReturn(t)]
    /\ UNCHANGED <<flag, bogo, nfaults, cacheframe>>

\* the run is cancelled while the child is at work
CacheCancel ==
    /\ flag
    /\ w_st[0] = "run"
    /\ flag' = FALSE
    /\ UNCHANGED <<bogo, nfaults, cache, cacheframe>>

InitCache ==
    /\ prog = "dev"
    /\ flag = TRUE
    /\ bogo = 0
    /\ pc = "d_wait"
    /\ i = 0
    /\ rc = "EXIT_SUCCESS"
    /\ ret = "none"
    /\ mapped = FALSE
    /\ pid = [c \in Children |-> IF c = 0 THEN 1 ELSE -1]
    /\ metrics = [w \in Workers |-> [k \in Kinds |-> ZeroMetric]]
    /\ w_st = [w \in Workers |-> IF w = 0 THEN "run" ELSE "none"]
    /\ w_pass = [w \in Workers |-> IF w = 0 THEN 1 ELSE 0]
    /\ w_code = [w \in Workers |-> "none"]
    /\ clockTick = 1
    /\ has64 = TRUE
    /\ err = "none"
    /\ sink = <<>>
    /\ divided = {}
    /\ notified = <<>>
    /\ natt = 1
    /\ nforks = 1
    /\ nfaults = 0
    /\ hist = [NoHist EXCEPT !.prep[0] = DevChildPrep]
    /\ rw = RwIdle
    /\ ops = OpsIdle
    /\ grp = GrpIdle
    /\ cache = [CacheIdle EXCEPT !.th[MainThread].pc = "c_init"]

CacheNext ==
    \/ TravEntry
    \/ TravGet
    \/ TravClassify
    \/ TravTryOpen
    \/ TravAddBegin
    \/ TravAddEnd
    \/ TravPublish
    \/ TravRw
    \/ TravCount
    \/ TravLoop
    \/ ChildSpinInit
    \/ ChildCreate
    \/ TravClear
    \/ TravJoin
    \/ \E t \in Probes : ProbeStart(t)
    \/ \E t \in Probes : ProbeCopy(t)
    \/ \E t \in Probes : ProbeOpen(t)
    \/ \E t \in Threads : ScsiCachedLock(t)
    \/ \E t \in Threads : ScsiCachedGet(t)
    \/ \E t \in Threads : ScsiCachedUnlock(t)
    \/ \E t \in Threads : ScsiScan(t)
    \/ \E t \in Threads : AddLock(t)
    \/ \E t \in Threads : AddBegin(t)
    \/ \E t \in Threads : AddEnd(t)
    \/ \E t \in Threads : AddUnlock(t)
    \/ CacheCancel

SpecCache == InitCache /\ [][CacheNext]_vars

(***************************************************************************)
(* Properties.                                                             *)
(***************************************************************************)
\* the supervisor of stress_atomic is summing, has summed, or has released
AfterReapLoop ==
    /\ prog = "atomic"
    /\ \/ pc \in {"a_agg", "a_deinit", "a_munmap"}
       \/ pc = "done" /\ ret # "EXIT_NO_RESOURCE"

\* C1: in stress_atomic the summing loop and the munmap start only after
\* every forked worker has terminated and been reaped and the supervisor's
\* own batch has returned: no worker can write a slot from then on.
\* (The blocking waitpid is taken to return only once the child ended.)
C1_JoinThenRead ==
    AfterReapLoop =>
        /\ \A c \in Children : w_st[c] \in {"none", "reaped"}
        /\ \A c \in Children : w_st[c] = "none" <=> pid[c] = -1
        /\ w_st[STRESS_ATOMIC_MAX_PROCS] = "returned"

\* the summing loop has started in a run where a worker had to be killed
C1_Witness ==
    /\ prog = "atomic"
    /\ pc = "a_agg"
    /\ nforks = STRESS_ATOMIC_MAX_PROCS
    /\ \E c \in Children : w_st[c] = "reaped" /\ w_code[c] = "SIGKILL"

\* C2: when the workload of any worker of stress_atomic reported a
\* verification mismatch, stress_atomic returns EXIT_FAILURE.
C2_MismatchReported ==
    (prog = "atomic" /\ ret # "none" /\ hist.mism # {}) => ret = "EXIT_FAILURE"

\* worker slots of the stressor that runs
Slots == IF prog = "atomic" THEN STRESS_ATOMIC_MAX_PROCS ELSE 1

\* C3 as claimed: when a run that was never cancelled and had no fork
\* failure has returned, the workers ever forked are its worker slots plus
\* the SIGKILL deaths that happened in it.
C3_ForkedIsSlotsPlusKills ==
    (prog \in {"atomic", "cgroup"} /\ ret \in {"EXIT_SUCCESS", "EXIT_FAILURE"}
        /\ flag /\ natt = nforks /\ hist.liveKills > 0)
    => nforks = Slots + hist.liveKills

\* C3 amended: stress_atomic makes exactly STRESS_ATOMIC_MAX_PROCS fork
\* attempts, whatever deaths happen; in stress_cgroup_mount a SIGKILL
\* death the supervisor observed puts it at the label again, where it makes
\* a new fork attempt unless it finds the continue flag cleared.
C3_RestartOnKill ==
    /\ prog = "atomic" =>
          natt = (IF pc \in {"start", "a_run"} \/ ret = "EXIT_NO_RESOURCE" THEN 0
                  ELSE IF pc = "a_fork" THEN i
                  ELSE STRESS_ATOMIC_MAX_PROCS)
    /\ (prog = "cgroup" /\ hist.owed = "kill") =>
          \/ pc = "c_again"
          \/ ~flag /\ pc \in {"c_finish", "done"}

\* stress_cgroup_mount has started a second worker after a SIGKILL death
C3_Witness ==
    /\ prog = "cgroup"
    /\ hist.liveKills = 1
    /\ bogo = 0
    /\ nforks = 2
    /\ natt = 2

\* C4 as claimed: no worker starts a pass, its first included, in a step
\* taken with the continue flag cleared.
C4_NoPassAfterCancel ==
    [][\A w \in Workers : w_pass'[w] > w_pass[w] => flag]_vars

\* C4 amended: with the continue flag cleared no worker starts a pass after
\* its first; the first pass of a worker is unconditional (do-while), also
\* when the flag was cleared before the worker was forked.
C4_NoFurtherPassAfterCancel ==
    [][\A w \in Workers :
          w_pass'[w] > w_pass[w] => (flag \/ w_pass[w] = 0)]_vars

\* a worker in its second pass is overtaken by the cancellation
C4_Witness ==
    /\ ~flag
    /\ \E w \in Workers : w_st[w] = "run" /\ w_pass[w] >= 2

\* worker s takes a step of its workload
WorkloadStep(s) ==
    /\ w_st[s] = "run"
    /\ w_pass'[s] # w_pass[s] \/ w_st'[s] \in {"zexit", "returned"}

\* C5: in stress_atomic the duration and count fields of slot s change only
\* in a step of the workload of worker s, the owner of slot s.
C5_SlotIsolation ==
    [][\A s \in Workers : metrics'[s] # metrics[s] => WorkloadStep(s)]_vars

\* the supervisor's batch and a child have both accumulated
C5_Witness ==
    /\ prog = "atomic"
    /\ metrics[STRESS_ATOMIC_MAX_PROCS][1].count > 0
    /\ metrics[0][1].count > 0
    /\ metrics[1][1].count = 0

\* the sums over the STRESS_ATOMIC_MAX_PROCS + 1 slots, for kind k
TotalOf(k) ==
    [duration |-> metrics[0][k].duration + metrics[1][k].duration
                  + metrics[2][k].duration + metrics[3][k].duration,
     count |-> metrics[0][k].count + metrics[1][k].count
               + metrics[2][k].count + metrics[3][k].count]

\* C6: the n-th value stress_atomic reports is for kind n - 1 and is the
\* summed count over the summed duration when that is > 0 and 0 otherwise;
\* no division by zero is made.
C6_Aggregation ==
    /\ \A n \in 1 .. Len(sink) :
          LET t == TotalOf(n - 1)
              rate == sink[n].rate
          IN /\ sink[n].kind = n - 1
             /\ IF t.duration > 0
                   THEN /\ rate.q * t.duration + rate.r = t.count
                        /\ rate.r >= 0
                        /\ rate.r < t.duration
                   ELSE rate = [q |-> 0, r |-> 0]
    /\ 0 \notin divided

\* all kinds are reported: one with a fractional rate, one under the guard
\* although operations were counted
C6_Witness ==
    /\ Len(sink) = STRESS_ATOMIC_MAX_FUNCS
    /\ sink[1].rate.r # 0
    /\ TotalOf(1).duration = 0
    /\ TotalOf(1).count > 0

\* C7: once the supervisor has observed a SIGKILL death with the continue
\* flag cleared it makes no further fork attempt and is on its way out.
C7_NoRestartAfterCancel ==
    hist.killAtt # -1 =>
        /\ natt = hist.killAtt
        /\ pc \in {"c_again", "c_finish", "d_loopcond", "d_finish", "done"}

\* stress_cgroup_mount returned after such a death
C7_Witness ==
    /\ prog = "cgroup"
    /\ hist.killAtt = 1
    /\ ret = "EXIT_SUCCESS"

\* C8 as claimed: after the supervisor observed a death by another signal
\* than SIGKILL it forks no replacement and returns a failure status.
C8_SignalDeathFailsRun ==
    (hist.sigAtt # -1 /\ ret # "none") =>
        /\ natt = hist.sigAtt
        /\ ret = "EXIT_FAILURE"

\* C8 amended: a death by another signal than SIGKILL leaves the return
\* status of the supervisor as it was, EXIT_SUCCESS, and takes it to its
\* loop condition: it leaves the loop only when stress_continue is false.
C8_SignalDeathIgnored ==
    hist.owed = "sig" =>
        /\ rc = "EXIT_SUCCESS"
        /\ ret \in {"none", "EXIT_SUCCESS"}
        /\ \/ pc \in {"c_loopcond", "c_again", "d_loopcond", "d_again"}
           \/ pc \in {"c_finish", "d_finish", "done"} /\ ~stress_continue

\* a worker died by SIGSEGV, another was forked, and the run succeeded
C8_Witness ==
    /\ prog \in {"cgroup", "dev"}
    /\ hist.sigAtt = 1
    /\ natt = 2
    /\ ret = "EXIT_SUCCESS"

\* C9: when a worker of stress_atomic failed, the run is marked failed and
\* the supervisor has sent no SIGKILL to a worker that was still running
\* with the continue condition true.
C9_FailureAbortsNoOne ==
    hist.mism # {} =>
        /\ ~hist.early
        /\ ret \in {"none", "EXIT_FAILURE"}

\* the supervisor has seen its continue condition false, or has a retry due
StopOrRetry ==
    /\ hist.stopAtt # -1 =>
          natt = hist.stopAtt /\ pc \in {"c_finish", "d_finish", "done"}
    /\ (prog \in {"cgroup", "dev"} /\ hist.owed = "retry") =>
          \/ pc \in {"c_forkfail", "c_again", "d_again"}
          \/ pc \in {"c_finish", "d_finish", "done"} /\ ~stress_continue

\* C10: after a transient fork failure the supervisor is back at the fork
\* unless it finds its continue condition false; every fork attempt is made
\* in a step that found the condition true, and none after it was observed
\* false.
C10_RetryUntilCancelled ==
    /\ []StopOrRetry
    /\ [][(prog \in {"cgroup", "dev"} /\ natt' > natt) => flag]_vars

\* a fork failed with EAGAIN or ENOMEM and the next attempt made a worker
C10_Witness ==
    /\ prog \in {"cgroup", "dev"}
    /\ err \in TransientErrno
    /\ natt = 2
    /\ nforks = 1
    /\ w_st[0] = "run"

\* C11 as claimed: after a fork failed with another errno than EAGAIN or
\* ENOMEM the supervisor makes no further fork attempt, and a run that
\* started a worker and met nothing else returns success.
C11_FatalForkEndsSlot ==
    hist.fatalAtt # -1 =>
        /\ natt = hist.fatalAtt
        /\ (ret # "none" /\ nforks >= 1 /\ nfaults = 1) => ret = "EXIT_SUCCESS"

\* C11 amended: a fork failure with another errno than EAGAIN or ENOMEM
\* does not fail the run and does not end the loop: the supervisor goes on
\* to its loop condition and forks again while stress_continue holds.
C11_FatalForkLoopsOn ==
    hist.owed = "fatal" =>
        /\ rc = "EXIT_SUCCESS"
        /\ ret \in {"none", "EXIT_SUCCESS"}
        /\ \/ pc \in {"c_forkfail", "c_loopcond", "c_again", "d_loopcond",
                      "d_again"}
           \/ pc \in {"c_finish", "d_finish", "done"} /\ ~stress_continue

\* a fork failed with ENOSYS and the next attempt made a worker
C11_Witness ==
    /\ prog \in {"cgroup", "dev"}
    /\ hist.fatalAtt = 1
    /\ err = "ENOSYS"
    /\ natt = 2
    /\ nforks = 1

\* C12 as claimed: a run whose every fork attempt failed returns
\* EXIT_NO_RESOURCE.
C12_NoWorkerIsNoResource ==
    (ret # "none" /\ natt > 0 /\ nforks = 0) => ret = "EXIT_NO_RESOURCE"

\* C12 amended: a run whose every fork attempt failed does not fail for
\* that: stress_atomic has run its own batch and returns its result,
\* stress_cgroup_mount and stress_dev return EXIT_SUCCESS; EXIT_NO_RESOURCE
\* is returned only when stress_atomic could not map the shared region.
C12_NoWorkerStillRuns ==
    /\ (ret # "none" /\ natt > 0 /\ nforks = 0) =>
          /\ ret = (IF STRESS_ATOMIC_MAX_PROCS \in hist.mism
                       THEN "EXIT_FAILURE" ELSE "EXIT_SUCCESS")
          /\ prog = "atomic" => w_pass[STRESS_ATOMIC_MAX_PROCS] >= 1
    /\ ret = "EXIT_NO_RESOURCE" => (prog = "atomic" /\ natt = 0)

\* stress_atomic returned success although all its forks failed
C12_Witness ==
    /\ prog = "atomic"
    /\ natt = STRESS_ATOMIC_MAX_PROCS
    /\ nforks = 0
    /\ bogo > 0
    /\ ret = "EXIT_SUCCESS"

\* stress_atomic has returned without a fork attempt: its mmap failed
MmapFailed == prog = "atomic" /\ pc = "done" /\ natt = 0

\* C13: when the mmap fails stress_atomic returns EXIT_NO_RESOURCE after its
\* one attempt, having forked no worker, run no workload, reported no metric
\* and notified no process state.
C13_CleanSkip ==
    MmapFailed =>
        /\ ret = "EXIT_NO_RESOURCE"
        /\ nfaults = 1
        /\ ~mapped
        /\ nforks = 0
        /\ bogo = 0
        /\ \A w \in Workers : w_pass[w] = 0 /\ w_st[w] = "none"
        /\ \A w \in Workers, k \in Kinds : metrics[w][k] = ZeroMetric
        /\ sink = <<>>
        /\ notified = <<>>

\* the skip has happened
C13_Witness ==
    /\ prog = "atomic"
    /\ ret = "EXIT_NO_RESOURCE"
    /\ pc = "done"

\* C14 as claimed: the supervisor never sends SIGKILL to a child that it
\* has not first sent SIGTERM.
C14_GentleBeforeForceful == ~hist.killNoTerm

\* the signals sent so far fit the stressor: stress_atomic and
\* stress_cgroup_mount send no SIGTERM at all, stress_dev no SIGKILL that
\* was not preceded by a SIGTERM
EscalationKept ==
    /\ prog \in {"atomic", "cgroup"} => ~hist.term
    /\ prog = "dev" => ~hist.killNoTerm

\* C14 amended: for a child its wait did not reap, stress_atomic and
\* stress_cgroup_mount send SIGKILL only, stress_dev sends SIGTERM and at
\* once SIGKILL; in all three the blocking wait is the next step.
C14_Escalation ==
    /\ []EscalationKept
    /\ [][(pc \in {"a_sigkill", "c_waitfail", "d_waitfail"} /\ pc' # pc)
             => pc' \in {"a_waitblock", "c_wait2", "d_wait2"}]_vars

\* stress_dev has sent SIGTERM and SIGKILL to a worker it could not wait for
C14_Witness ==
    /\ prog = "dev"
    /\ hist.term
    /\ pc = "d_wait2"
    /\ w_st[0] = "zsig"

C16_ChildPrepared ==
    \A c \in Children :
        w_pass[c] >= 1 => hist.prep[c] = {"alarm", "oom"}

\* C16 amended: a child of stress_dev that has started its first pass has
\* done both; a child of stress_cgroup_mount has re-armed the parent-died
\* alarm only; a child of stress_atomic has done neither.
C16_ChildPreparedPerStressor ==
    \A c \in Children :
        w_pass[c] >= 1 =>
            /\ prog = "dev" => hist.prep[c] = {"alarm", "oom"}
            /\ prog = "cgroup" => hist.prep[c] = {"alarm"}
            /\ prog = "atomic" => hist.prep[c] = {}

\* a child of stress_dev has completed a pass
C16_Witness ==
    /\ prog = "dev"
    /\ w_pass[0] >= 1
    /\ bogo >= 1

\* worker w completes a pass in this step: it goes on to its next pass or
\* leaves its loop, and nothing failed
Completed(w) ==
    /\ w_st[w] = "run"
    /\ nfaults' = nfaults
    /\ \/ w_pass'[w] = w_pass[w] + 1
       \/ w_st'[w] \in {"zexit", "returned", "cleanup"}

\* C17: in stress_atomic and stress_cgroup_mount every step changes the
\* bogo-op counter by the number of passes completed in it (one or none):
\* no increment for a pass that fails, none without a pass, no decrease.
C17_BogoCountsPasses ==
    [][(prog \in {"atomic", "cgroup"})
          => (bogo' = bogo + Cardinality({w \in Workers : Completed(w)}))]_vars

\* two passes were counted and one was aborted by a mismatch
C17_Witness ==
    /\ prog = "atomic"
    /\ bogo = 2
    /\ hist.mism # {}

AfterCheck == {CheckNext[p] : p \in DOMAIN CheckNext}

C19_NoRetry ==
    /\ ~rw.late
    /\ ~rw.retried

\* C19 amended: after the deadline is seen exceeded no suspension point of
\* the unit is executed; a call by the traversal (loops > 0) then returns
\* and its next unit is on another entry; only a probe thread
\* (loops == -1) starts a unit on the path it has just abandoned.
C19_AbandonThenBreak ==
    /\ ~rw.late
    /\ rw.timeout => rw.pc \in {"next", "ret", "idle", "top", "done"}
    /\ rw.retried => rw.call = -1
    /\ (rw.call > 0 /\ rw.lastAb # "") => rw.pc \in {"ret", "idle", "done"}

\* a call by the traversal has returned at its first abandonment, with a
\* repetition left
C19_Witness ==
    /\ rw.call = 2
    /\ rw.loops = 2
    /\ rw.timeout
    /\ rw.lastAb = rw.path
    /\ rw.pc = "ret"

CheckedClosely ==
    {"open", "chk_open", "fstat", "poll", "chk_poll", "select", "chk_select",
     "getfd", "chk_getfd", "getfl", "chk_getfl", "getsig", "chk_getsig",
     "mmap_rpriv", "open2"}

SinkHasKinds(n) ==
    /\ Len(sink) = n
    /\ \A k \in 0 .. (n - 1) : sink[k + 1].kind = k

\* C25: stress_atomic calls the metrics sink for no kind before its
\* summing loop, for each kind once in that loop, while the region is
\* mapped, and a run that got past the mmap has called it once for each
\* kind when it releases the region and when it returns, whatever rc is.
C25_SinkOncePerKind ==
    prog = "atomic" =>
        /\ pc \notin {"a_agg", "a_deinit", "a_munmap", "done"} => sink = <<>>
        /\ pc = "a_agg" => mapped /\ SinkHasKinds(i)
        /\ pc \in {"a_deinit", "a_munmap"}
              => mapped /\ SinkHasKinds(STRESS_ATOMIC_MAX_FUNCS)
        /\ (pc = "done" /\ ret # MmapFailedStatus)
              => SinkHasKinds(STRESS_ATOMIC_MAX_FUNCS)

\* a run of stress_atomic that returned EXIT_FAILURE has emitted a rate
\* above zero
C25_Witness ==
    /\ prog = "atomic"
    /\ ret = "EXIT_FAILURE"
    /\ SinkHasKinds(STRESS_ATOMIC_MAX_FUNCS)
    /\ \E n \in 1 .. Len(sink) : sink[n].rate.q > 0

C29_NoKillAfterReap ==
    [][(prog = "atomic" /\ pc = "a_kill0" /\ pc' # pc)
          => w_st[i] # "reaped"]_vars

\* C28: for every width and every tmp the self-check of DO_ATOMIC_OPS ends
\* with check2 equal to check1 and rc left at 0: store, add 2, subtract 1,
\* load and the decrement give tmp again, wrapped or not.
C28_NoSpuriousMismatch ==
    ops.pc = "done" =>
        /\ ops.rc = 0
        /\ ops.check2 = ops.tmp
        /\ ops.unshared = AddW(ops.tmp, 1)

\* a 64 bit check on the largest value, where the addition wraps
C28_Witness ==
    /\ ops.pc = "done"
    /\ ops.width = 64
    /\ \A n \in 1 .. 8 : ops.tmp[n] = 255
    /\ \A n \in 1 .. 8 : ops.unshared[n] = 0

\* C30: stress_cgroup_new_group makes a group directory for, writes to a
\* cgroup.procs, and calls stress_kill_pid with, the pid of a child it
\* forked only: never a pid that is not positive.
C30_NoInvalidPid ==
    /\ \A p \in grp.made \cup grp.killed : p > 0
    /\ \A w \in grp.written : w[2] > 0

\* C21: a child of stress_dev that exits exits with EXIT_SUCCESS, and
\* stress_dev returns EXIT_SUCCESS, whatever deadline timeouts its calls
\* of stress_dev_rw have seen.
C21_TimeoutIsSoftSkip ==
    /\ w_st[0] = "zexit" => w_code[0] = "EXIT_SUCCESS"
    /\ (w_st[0] = "reaped" /\ w_code[0] \notin {"SIGTERM", "SIGKILL"})
          => w_code[0] = "EXIT_SUCCESS"
    /\ rc = "EXIT_SUCCESS"
    /\ ret \in {"none", "EXIT_SUCCESS"}

\* stress_dev has returned EXIT_SUCCESS after a run without any fault in
\* which the last unit of work was abandoned on a timeout
C21_Witness ==
    /\ ret = "EXIT_SUCCESS"
    /\ rw.timeout
    /\ nfaults = 0
    /\ w_st[0] = "reaped"

\* C26: a child of stress_dev whose operation budget is exhausted ends,
\* also when the continue flag stays set.
C26_ChildEndsOnBudget ==
    (bogo >= MaxOps /\ w_st[0] = "run") ~> (w_st[0] # "run")

\* C22 as stated: every lookup and every insert on dev_hash_table and
\* scsi_hash_table is made by a thread that holds the spin lock, and the
\* insert for an identifier is made in the critical section of the lookup
\* before it.
C22_AllLockedAndPaired == cache.unlocked = {} /\ ~cache.split

\* C22: every lookup and every insert on scsi_hash_table is made by the
\* thread that holds the spin lock, the insert in a critical section of
\* its own, entered after the one of the lookup was left; dev_hash_table
\* is accessed without the lock and by the main thread alone.
C22_ScsiLockedDevPrivate ==
    /\ cache.unlocked \subseteq {"dev"}
    /\ cache.shared \subseteq {"scsi"}
    /\ \A t \in Threads :
          /\ cache.th[t].pc \in {"s_get", "a_add", "a_add_end"}
                => cache.lock = t
          /\ cache.th[t].pc \in {"a_add", "a_add_end"} => ~cache.th[t].sameCs

\* lookups and inserts were made on both tables, by the probe threads too,
\* and an insert followed its lookup
C22_Witness ==
    /\ cache.split
    /\ "dev" \in cache.unlocked
    /\ "scsi" \in cache.shared
    /\ \E t \in Threads : cache.th[t].pc = "a_add_end" /\ cache.lock = t

\* C23: an insert into scsi_hash_table, the first or a repeated one, by
\* the main thread or a probe thread, adds its identifier and changes no
\* other; a lookup after an insert of its identifier reports it present;
\* and no lookup meets an entry that is being written.
C23_InsertIdempotent ==
    [][/\ ~cache'.sawPartial
       /\ cache.scsi \subseteq cache'.scsi
       /\ \A t \in Threads :
             /\ (cache.th[t].pc = "a_add_end" /\ cache'.th[t].pc = "a_unlock")
                   => (cache'.scsi = cache.scsi \cup {cache.th[t].id})
             /\ (cache.th[t].pc = "s_get" /\ cache'.th[t].pc = "s_unlock")
                   => ((\E u \in Threads : <<u, cache.th[t].id>> \in cache.adds)
                          => cache'.th[t].found)]_vars

\* the main thread and a probe thread have both inserted one identifier,
\* another identifier is in the table, and a lookup has found one
C23_Witness ==
    /\ \E d \in cache.scsi :
          /\ <<MainThread, d>> \in cache.adds
          /\ \E t \in Probes : <<t, d>> \in cache.adds
          /\ cache.scsi # {d}
    /\ \E t \in Threads : cache.th[t].found

\* C24: a path in dev_hash_table stays in it, and the traversal makes no
\* stat, stress_try_open or stress_dev_rw call for it and does not publish
\* it in dev_path.
C24_Memoized ==
    [][/\ cache.dev \subseteq cache'.dev
       /\ cache'.probedAfter = {}]_vars

\* a later pass has passed over a directory and a device found in
\* dev_hash_table
C24_Witness ==
    /\ "/dev/snd" \in cache.skipped
    /\ "/dev/sda" \in cache.skipped
    /\ cache.skipped \subseteq cache.dev

\* C31: when stress_cgroup_new_group has returned, the helper child it
\* forked has been killed and reaped by the parent; this also on the path
\* where mkdir of the group directory fails.
C31_HelperKilled ==
    grp.pc = "done" => grp.child \in {"none", "reaped"}

\* C32: stress_dev_rw holds at most one open descriptor at any time, and
\* none at the end of a loop iteration, at its loop head or when it has
\* returned: every descriptor an iteration opened has been closed,
\* whichever way the iteration ended.
C32_NoDescriptorLeak ==
    /\ rw.fds \in {0, 1}
    /\ rw.pc \in {"next", "top", "ret", "idle", "done", "open", "open2", "rdwr"}
          => rw.fds = 0

\* an iteration that went past the close of its first descriptor was abandoned on a
\* deadline and is at its end
C32_Witness ==
    /\ rw.pc = "next"
    /\ rw.timeout
    /\ rw.fds = 0
    /\ rw.nsusp > 10

\* C33: when a probe thread copies dev_path under the lock, dev_path
\* points to storage that is live: a string literal or the buffer filename
\* of an iteration of stress_dev_dir that has not ended.
C33_PathLiveWhenCopied ==
    \A t \in Probes : cache.th[t].pc = "p_copy" => cache.live

C37_MutualExclusion ==
    /\ \A t \in Threads : cache.th[t].pc \in Critical <=> cache.lock = t
    /\ Cardinality({t \in Threads : cache.th[t].pc \in Critical}) <= 1
    /\ \A t \in Probes : cache.th[t].pc # "idle" => cache.init

\* a thread holds the lock while another is about to take it
C37_Witness ==
    \E t, u \in Threads :
       /\ t # u
       /\ cache.lock = t
       /\ cache.th[t].pc \in Critical
       /\ cache.th[u].pc \in {"s_lock", "a_lock", "t_publish"}

\* C36: when stress_atomic or stress_cgroup_mount has returned after it
\* notified STRESS_STATE_RUN, it has notified STRESS_STATE_DEINIT once,
\* after RUN; and DEINIT is never notified without RUN before it.
C36_NotificationsPaired ==
    (prog \in {"atomic", "cgroup"})
       => /\ notified \in {<<>>, <<"RUN">>, <<"RUN", "DEINIT">>}
          /\ (pc = "done" /\ notified # <<>>) => notified = <<"RUN", "DEINIT">>

\* C38 as stated: every fork attempt of stress_cgroup_mount is made while
\* stress_continue(args) holds.
C38_ForkWithinBudget ==
    [][(prog = "cgroup" /\ natt' # natt) => stress_continue]_vars

\* C38: every fork attempt of stress_cgroup_mount is made while the
\* continue flag is set; it is made with the budget exhausted only when
\* the supervisor comes from a death of its child by SIGKILL.
C38_ForkWithFlag ==
    [][(prog = "cgroup" /\ natt' # natt)
          => (/\ stress_continue_flag
              /\ ~stress_continue => hist.owed = "kill")]_vars

\* the supervisor has forked a child that has not started yet, with the
\* budget exhausted and the flag set
C38_Witness ==
    /\ prog = "cgroup"
    /\ pc = "c_wait"
    /\ w_st[0] = "init"
    /\ flag
    /\ bogo >= MaxOps

\* C35: stress_cgroup_umount makes at most 100 umount attempts; it
\* returns after fewer only when the last attempt gave EINVAL; and an
\* attempt that succeeds is followed by another unless it was the 100th.
C35_UmountBounded ==
    [][/\ grp'.ui <= UmountTries
       /\ (grp.pc = "umount" /\ grp'.pc # "umount")
             => (grp'.ui = UmountTries \/ grp'.ulast = "EINVAL")
       /\ (grp.pc = "umount" /\ grp'.ulast = "ok")
             => (grp'.pc = "umount" \/ grp'.ui = UmountTries)]_vars

\* stress_cgroup_umount has returned after its 100th attempt, which
\* succeeded
C35_Witness ==
    /\ grp.pc \in {"bogo", "rm"}
    /\ grp.ui = UmountTries
    /\ grp.ulast = "ok"

\* C39: stress_cgroup_child makes no mount attempt and does not return
\* while a successful mount has not been followed by a call of
\* stress_cgroup_umount, and when it returns the temporary directory it
\* made has been handed to stress_temp_dir_rm_args.
C39_ChildCleansUp ==
    /\ grp.pc \in {"mount", "exit"} => ~grp.owed
    /\ grp.pc = "exit" => ~grp.tmp

\* the child returns after a pass whose mount succeeded and a later mount
\* that failed
C39_Witness ==
    /\ grp.pc = "exit"
    /\ grp.crc = "EXIT_SUCCESS"
    /\ bogo >= 1
    /\ nfaults >= 1

====
